---------------------------- MODULE Spec2Model ----------------------------
(***************************************************************************)
(* Model of the internal linking engine, src/src/internal_linker.py:       *)
(* URLItem, InternalLinker.__init__ and InternalLinker.add_internal_links  *)
(* with the helpers it calls.                                              *)
(*                                                                         *)
(* Strings.  A Python string is modelled as a sequence of lexemes.  A      *)
(* lexeme is a record [t, s, u]:                                           *)
(*   t = "w"   a word (a maximal run of letters), s its spelling;          *)
(*   t = "ws"  one whitespace character, s = " " or "\n";                  *)
(*   t = "tag" a complete tag <...>, s its name with the brackets; for an  *)
(*             anchor start tag <a href="U"> u is the index of U in        *)
(*             UrlUniverse, otherwise u = 0.                               *)
(* Two strings are equal iff their lexeme sequences are equal.  The words  *)
(* of the vocabulary are chosen so that none is a substring of another     *)
(* one or of a tag name, so Python's substring test `x in y` on lexeme     *)
(* boundaries is the test for a contiguous subsequence (Occurs).           *)
(*                                                                         *)
(* Floats.  Scores are Python floats.  A float is written as the integer   *)
(* nearest to 10000 times its value (0.8 is 8000, 0.15 is 1500), plus one  *)
(* when the float lies just above that decimal value and minus one when it *)
(* lies just below (0.2 + 0.4 = 0.6000000000000001 is 6001).  The decimal  *)
(* values the code can produce are multiples of 0.0125, so the order of    *)
(* the integers is the order of the floats.  The operators FAdd, FBoost    *)
(* and FHalf are +, * 1.5 and * 0.5 of IEEE 754 doubles on that writing.   *)
(***************************************************************************)
EXTENDS Integers, Sequences, FiniteSets, TLC

VARIABLES
    sitemap_urls,       \* argument sitemap_urls of InternalLinker.__init__
    urls,               \* self.urls: the catalog, a sequence of URLItem
    stats,              \* the value the last get_statistics call returned
    other,              \* the frames of the calls that are not running now
    content_html,       \* argument content_html
    max_links_arg,      \* argument max_links: [some |-> FALSE] is None
    words_per_link,     \* argument words_per_link, <<min, max>>
    pc,                 \* position of the call
    word_count,         \* local word_count
    max_links,          \* local max_links after line 198
    sections,           \* local sections
    potential_links,    \* local potential_links
    selected_links,     \* local selected_links
    idx,                \* loop variable i of the two passes (1-based)
    links_added,        \* local links_added
    link_distribution,  \* local link_distribution
    used_urls,          \* local used_urls
    modified_sections,  \* local modified_sections
    result,             \* the returned string
    exc                 \* the exception that left the call, "" if none

vars == <<sitemap_urls, urls, stats, other, content_html,
          max_links_arg, words_per_link, pc, word_count,
          max_links, sections, potential_links, selected_links, idx,
          links_added, link_distribution, used_urls, modified_sections,
          result, exc>>

\* what a step of add_internal_links never writes: the argument the engine
\* was constructed from, the statistics and the frames of the other calls
env == <<sitemap_urls, stats, other>>

-----------------------------------------------------------------------------
(* Bounds of the model.                                                    *)

\* an article is a concatenation of at most MaxBlocks fragments
MaxBlocks == 2

\* an explicit max_links argument is in 0 .. MaxLinksArg
MaxLinksArg == 3

\* a URL that exercises the categorization has at most MaxSegments path
\* segments
MaxSegments == 2

\* a markup that exercises the segmenter has at most MaxPieces tags, words
\* and spaces
MaxPieces == 3

-----------------------------------------------------------------------------
(* Lexemes.                                                                *)

W(s) == [t |-> "w", s |-> s, u |-> 0]

SP == [t |-> "ws", s |-> " ", u |-> 0]

NL == [t |-> "ws", s |-> "\n", u |-> 0]

T(s) == [t |-> "tag", s |-> s, u |-> 0]

AOpen(k) == [t |-> "tag", s |-> "<a>", u |-> k]

AClose == T("</a>")

IsTag(x) == x.t = "tag"

IsSpace(x) == x.t = "ws"

\* str.lower() of one word of the vocabulary
LowerWord(s) ==
    CASE s = "Seeds" -> "seeds"
      [] s = "Big"   -> "big"
      [] s = "Tools" -> "tools"
      [] s = "Category" -> "category"
      [] s = "Product" -> "product"
      [] s = "Blog" -> "blog"
      [] s = "Shop" -> "shop"
      [] OTHER       -> s

\* str.lower() of a string: tag names of the vocabulary are lower case
LowerTok(x) == IF x.t = "w" THEN [x EXCEPT !.s = LowerWord(x.s)] ELSE x

Lower(str) == [k \in 1..Len(str) |-> LowerTok(str[k])]

\* every string of a list lower-cased
Lower2(strs) == [k \in 1..Len(strs) |-> Lower(strs[k])]

\* `needle in hay` at position k
OccursAt(needle, hay, k) ==
    /\ k >= 1
    /\ k + Len(needle) - 1 <= Len(hay)
    /\ \A j \in 1..Len(needle) : hay[k + j - 1] = needle[j]

\* `needle in hay`
Occurs(needle, hay) == \E k \in 1..(Len(hay) + 1) : OccursAt(needle, hay, k)

\* re.sub(r'<[^>]+>', '', html)
StripTags(html) == SelectSeq(html, LAMBDA x : ~IsTag(x))

\* str.strip(): leading and trailing whitespace removed
RECURSIVE LStrip(_)
LStrip(str) ==
    IF str # <<>> /\ IsSpace(str[1]) THEN LStrip(Tail(str)) ELSE str

RECURSIVE RStrip(_)
RStrip(str) ==
    IF str # <<>> /\ IsSpace(str[Len(str)])
    THEN RStrip(SubSeq(str, 1, Len(str) - 1))
    ELSE str

Strip(str) == RStrip(LStrip(str))

\* re.split / str.split(sep): the pieces of str between the lexemes of seps,
\* empty pieces included
RECURSIVE SplitOn(_, _)
SplitOn(str, seps) ==
    LET hits == {k \in 1..Len(str) : str[k] \in seps} IN
    IF hits = {} THEN <<str>>
    ELSE LET k == CHOOSE h \in hits : \A g \in hits : h <= g IN
         <<SubSeq(str, 1, k - 1)>> \o SplitOn(SubSeq(str, k + 1, Len(str)), seps)

NonEmpty(strs) == SelectSeq(strs, LAMBDA p : p # <<>>)

\* str.split(): the whitespace-separated words of a string.  Word lexemes
\* left adjacent by the removal of a tag between them form one word.
Split(str) == NonEmpty(SplitOn(str, {SP, NL}))

\* len(str) in characters (only used on strings without anchor tags)
RECURSIVE StrLen(_)
StrLen(str) == IF str = <<>> THEN 0 ELSE Len(str[1].s) + StrLen(Tail(str))

\* the concatenation of a list of strings
RECURSIVE Concat(_)
Concat(strs) == IF strs = <<>> THEN <<>> ELSE strs[1] \o Concat(Tail(strs))

-----------------------------------------------------------------------------
(* URL strings.  A URL is written as the lexemes of "https://host/path":   *)
(* its words, and punctuation lexemes (t = "x") for "://", ".", "/", "-",  *)
(* "_" and a file extension such as ".html".                               *)

X(s) == [t |-> "x", s |-> s, u |-> 0]

\* "https://" host
Https(host) == <<W("https"), X("://")>> \o host

XCom == <<W("x"), X("."), W("com")>>

OtherOrg == <<W("other"), X("."), W("org")>>

\* The URL strings that occur in the model, in sitemaps and in the href of
\* anchors already present in an article.
UrlUniverse == <<
    \* 1  https://x.com/category/seeds
    Https(XCom) \o <<X("/"), W("category"), X("/"), W("seeds")>>,
    \* 2  https://x.com/blog/big-seeds.html
    Https(XCom) \o <<X("/"), W("blog"), X("/"), W("big"), X("-"), W("seeds"),
                     X(".html")>>,
    \* 3  https://x.com/product/tools/
    Https(XCom) \o <<X("/"), W("product"), X("/"), W("tools"), X("/")>>,
    \* 4  https://x.com/blog/seeds
    Https(XCom) \o <<X("/"), W("blog"), X("/"), W("seeds")>>,
    \* 5  https://x.com/category/seeds-kit
    Https(XCom) \o <<X("/"), W("category"), X("/"), W("seeds"), X("-"),
                     W("kit")>>,
    \* 6  https://other.org/page
    Https(OtherOrg) \o <<X("/"), W("page")>>,
    \* 7  https://x.com/category/uv-seeds
    Https(XCom) \o <<X("/"), W("category"), X("/"), W("uv"), X("-"),
                     W("seeds")>>,
    \* 8  https://x.com/blog/khak  (the Persian word for soil, transliterated)
    Https(XCom) \o <<X("/"), W("blog"), X("/"), W("khak")>> >>

\* the text between the brackets of a tag lexeme: an anchor start tag spells
\* out its href, so that substring tests see the URL inside the markup
TagText(x) ==
    IF x.t = "tag" /\ x.u # 0
    THEN <<X("<a href=\"")>> \o UrlUniverse[x.u] \o <<X("\">")>>
    ELSE <<x>>

\* the string as the characters a substring test runs over
Chars(html) == Concat([k \in 1..Len(html) |-> TagText(html[k])])

\* `needle in html` for markup that may hold anchor tags
In(needle, html) == Occurs(needle, Chars(html))

\* urlparse(url).path, unquoted: what follows "https://host"
UrlPath(url) ==
    LET k == CHOOSE j \in 3..Len(url) + 1 :
                 /\ j = Len(url) + 1 \/ url[j] = X("/")
                 /\ \A i \in 3..(j - 1) : url[i] # X("/") IN
    SubSeq(url, k, Len(url))

FileExts == {X(".html"), X(".htm"), X(".php")}

\* URLItem._extract_title_from_url
ExtractTitleFromUrl(url) ==
    LET segments == NonEmpty(SplitOn(UrlPath(url), {X("/")})) IN
    IF segments # <<>>
    THEN LET last == segments[Len(segments)]
             noext == IF last[Len(last)] \in FileExts
                      THEN SubSeq(last, 1, Len(last) - 1) ELSE last
             spaced == [k \in 1..Len(noext) |->
                          IF noext[k] \in {X("-"), X("_")} THEN SP ELSE noext[k]]
         IN Strip(spaced)
    ELSE url

\* URLItem._extract_keywords_from_url
ExtractKeywordsFromUrl(url) ==
    LET pieces == SplitOn(UrlPath(url), {X("/"), X("-"), X("_")})
        clean == NonEmpty([k \in 1..Len(pieces) |-> Strip(pieces[k])])
    IN SelectSeq(clean, LAMBDA p : StrLen(p) > 2)

-----------------------------------------------------------------------------
(* The catalog.                                                            *)

\* '/' word '/' as a search pattern
Slashed(word) == <<X("/")>> \o word \o <<X("/")>>

\* category_patterns; the Persian patterns are written in transliteration
category_patterns ==
    { Slashed(<<W("category")>>), Slashed(<<W("cat")>>),
      Slashed(<<W("categories")>>), Slashed(<<W("dasteh")>>),
      Slashed(<<W("dasteh"), X("-"), W("bandi")>>),
      Slashed(<<W("product"), X("-"), W("category")>>),
      Slashed(<<W("shop")>>) }

product_patterns ==
    { Slashed(<<W("product")>>), Slashed(<<W("mahsool")>>),
      Slashed(<<W("p")>>) }

blog_patterns ==
    { Slashed(<<W("blog")>>), Slashed(<<W("post")>>),
      Slashed(<<W("article")>>), Slashed(<<W("maghaleh")>>),
      Slashed(<<W("weblog")>>) }

\* _determine_url_type with the product patterns tried before the category
\* patterns
DetermineUrlTypeProductFirst(url) ==
    LET url_lower == Lower(url) IN
    IF \E p \in product_patterns : Occurs(p, url_lower) THEN "product"
    ELSE IF \E p \in category_patterns : Occurs(p, url_lower) THEN "category"
    ELSE IF \E p \in blog_patterns : Occurs(p, url_lower) THEN "blog"
    ELSE "other"

\* InternalLinker._determine_url_type
DetermineUrlType(url) ==
    LET url_lower == Lower(url) IN
    IF \E p \in category_patterns : Occurs(p, url_lower) THEN "category"
    ELSE IF \E p \in product_patterns : Occurs(p, url_lower) THEN "product"
    ELSE IF \E p \in blog_patterns : Occurs(p, url_lower) THEN "blog"
    ELSE "other"

\* URLItem.__init__
URLItem(url, url_type) ==
    [url |-> url, url_type |-> url_type,
     title |-> ExtractTitleFromUrl(url),
     keywords |-> ExtractKeywordsFromUrl(url)]

\* InternalLinker._categorize_urls: self.urls after construction
CategorizeUrls(url_strings) ==
    [k \in 1..Len(url_strings) |->
        URLItem(url_strings[k], DetermineUrlType(url_strings[k]))]

\* InternalLinker._get_prioritized_urls
GetPrioritizedUrls(us) ==
    SelectSeq(us, LAMBDA e : e.url_type = "category")
    \o SelectSeq(us, LAMBDA e : e.url_type = "product")
    \o SelectSeq(us, LAMBDA e : e.url_type = "blog")
    \o SelectSeq(us, LAMBDA e : e.url_type = "other")

-----------------------------------------------------------------------------
(* Relevance score.                                                        *)

\* semantic_groups.values(), the Persian words in transliteration
semantic_groups ==
    { {"gol", "giah", "kasht", "bazr", "golkhaneh", "baghcheh"},
      {"bazr", "kasht", "giah", "gol", "nahal", "daneh"},
      {"kasht", "bazr", "giah", "gol", "abyari", "khak"},
      {"abyari", "ab", "giah", "kasht", "baghcheh"},
      {"khak", "kasht", "giah", "baghcheh", "kood"},
      {"kood", "khak", "giah", "kasht", "baghcheh"},
      {"baghcheh", "giah", "kasht", "abyari", "khak"} }

\* lines 465-470 on the characters of the text and the lower-cased title
SharesSemanticGroup(chars, title_lower) ==
    \E group_words \in semantic_groups :
        /\ \E w \in group_words : Occurs(<<W(w)>>, chars)
        /\ \E w \in group_words : Occurs(<<W(w)>>, title_lower)

\* InternalLinker._has_semantic_similarity
HasSemanticSimilarity(text, url_item) ==
    SharesSemanticGroup(Chars(text), Lower(url_item.title))

Min(a, b) == IF a <= b THEN a ELSE b

\* score + inc for a score of at most 1.0 and inc one of 0.2, 0.3, 0.4, 0.8:
\* the sums that binary floating point does not round to the decimal value
\*   0.2 + 0.4 = 0.4 + 0.2 = 0.6000000000000001
\*   0.6 + 0.3 = 0.7 + 0.2 = 0.8999999999999999
\*   0.6000000000000001 + 0.4 = 1.0,  0.6000000000000001 + 0.2 = 0.8
\* A sum above 1.0 only needs to stay above 1.0 (line 440 caps it).
FAdd(score, inc) ==
    CASE score = 2000 /\ inc = 4000 -> 6001
      [] score = 4000 /\ inc = 2000 -> 6001
      [] score = 6000 /\ inc = 3000 -> 8999
      [] score = 7000 /\ inc = 2000 -> 8999
      [] score = 6001 /\ inc = 4000 -> 10000
      [] score = 6001 /\ inc = 2000 -> 8000
      [] OTHER -> score + inc

\* score += inc, n times
RECURSIVE FAddTimes(_, _, _)
FAddTimes(score, inc, n) ==
    IF n = 0 THEN score ELSE FAddTimes(FAdd(score, inc), inc, n - 1)

\* score * 1.5 for a score returned by _calculate_match_score:
\*   0.2 -> 0.30000000000000004   0.3 -> 0.44999999999999996
\*   0.4 -> 0.6000000000000001    0.6 -> 0.8999999999999999
\*   0.7 -> 1.0499999999999998    0.8 -> 1.2000000000000002
\*   0.8999999999999999 -> 1.3499999999999999   0.9000000000000001 -> 1.35
FBoost(score) ==
    CASE score = 2000 -> 3001
      [] score = 3000 -> 4499
      [] score = 4000 -> 6001
      [] score = 6000 -> 8999
      [] score = 7000 -> 10499
      [] score = 8000 -> 12001
      [] score = 8999 -> 13499
      [] score = 9001 -> 13500
      [] OTHER -> (score * 3) \div 2

\* score * 0.5: halving a double is exact, so a float just above (below) a
\* decimal value becomes the float just above (below) half that value
FHalf(score) ==
    IF score % 10 = 1 THEN (score - 1) \div 2 + 1
    ELSE IF score % 10 = 9 THEN (score + 1) \div 2 - 1
    ELSE score \div 2

\* lines 420-427: the loop over the keywords, in their order
RECURSIVE KeywordScore(_, _, _)
KeywordScore(score, keywords, chars) ==
    IF keywords = <<>> THEN score
    ELSE KeywordScore(
             IF StrLen(keywords[1]) <= 2 THEN score
             ELSE IF Occurs(keywords[1], chars) THEN FAdd(score, 4000)
             ELSE IF \E word \in {Split(keywords[1])[j] :
                                     j \in 1..Len(Split(keywords[1]))} :
                        StrLen(word) > 2 /\ Occurs(word, chars)
                  THEN FAdd(score, 2000)
             ELSE score,
             Tail(keywords), chars)

\* the score with the bonus of lines 432-433 given once, however many title
\* words occur both in the URL and in the text
MatchScoreOfPathOnce(chars, title_lower, title_words, keywords, url_path, semantic) ==
    LET exact == IF Occurs(title_lower, chars) THEN 8000 ELSE 0
        words == Cardinality({k \in 1..Len(title_words) :
                     StrLen(title_words[k]) > 2 /\ Occurs(title_words[k], chars)})
        path == IF \E k \in 1..Len(title_words) :
                     Occurs(title_words[k], url_path) /\ Occurs(title_words[k], chars)
                THEN 1 ELSE 0
        after_path == FAddTimes(KeywordScore(FAddTimes(exact, 3000, words),
                                             keywords, chars), 2000, path)
    IN Min(IF semantic THEN FAdd(after_path, 3000) ELSE after_path, 10000)

\* lines 406-440 on the characters of the text, the lower-cased title, its
\* words, the lower-cased keywords and the lower-cased URL
MatchScoreOf(chars, title_lower, title_words, keywords, url_path, semantic) ==
    LET exact == IF Occurs(title_lower, chars) THEN 8000 ELSE 0
        words == Cardinality({k \in 1..Len(title_words) :
                     StrLen(title_words[k]) > 2 /\ Occurs(title_words[k], chars)})
        path == Cardinality({k \in 1..Len(title_words) :
                     Occurs(title_words[k], url_path) /\ Occurs(title_words[k], chars)})
        after_path == FAddTimes(KeywordScore(FAddTimes(exact, 3000, words),
                                             keywords, chars), 2000, path)
    IN Min(IF semantic THEN FAdd(after_path, 3000) ELSE after_path, 10000)

\* InternalLinker._calculate_match_score
CalculateMatchScore(text, url_item) ==
    MatchScoreOf(Chars(text), Lower(url_item.title),
                 Split(Lower(url_item.title)), Lower2(url_item.keywords),
                 Lower(url_item.url), HasSemanticSimilarity(text, url_item))

-----------------------------------------------------------------------------
(* Segmentation.                                                           *)

HeadingOpen == {T("<h1>"), T("<h2>"), T("<h3>"), T("<h4>"), T("<h5>"), T("<h6>")}

HeadingClose ==
    {T("</h1>"), T("</h2>"), T("</h3>"), T("</h4>"), T("</h5>"), T("</h6>")}

\* the closing tags that end a block started by the tag x, per alternative
\* of the pattern of line 322
BlockClosers(x) ==
    IF x \in HeadingOpen THEN HeadingClose
    ELSE IF x = T("<p>") THEN {T("</p>")}
    ELSE IF x = T("<ul>") THEN {T("</ul>")}
    ELSE IF x = T("<ol>") THEN {T("</ol>")}
    ELSE IF x = T("<div>") THEN {T("</div>")}
    ELSE {}

\* where the non-greedy match of the pattern that starts at k ends; 0 if the
\* pattern does not match at k
MatchEnd(html, k) ==
    LET ends == {j \in (k + 1)..Len(html) : html[j] \in BlockClosers(html[k])} IN
    IF ends = {} THEN 0 ELSE CHOOSE j \in ends : \A i \in ends : j <= i

\* re.split(pattern, html): text, block, text, block, ..., text
RECURSIVE ReSplit(_)
ReSplit(html) ==
    LET starts == {k \in 1..Len(html) : MatchEnd(html, k) # 0} IN
    IF starts = {} THEN <<html>>
    ELSE LET k == CHOOSE a \in starts : \A b \in starts : a <= b
             j == MatchEnd(html, k)
         IN <<SubSeq(html, 1, k - 1), SubSeq(html, k, j)>>
            \o ReSplit(SubSeq(html, j + 1, Len(html)))

\* lines 328-340 for one stripped, non-empty part
SectionOf(part) ==
    IF part[1] \in HeadingOpen
    THEN [type |-> "heading", content |-> part]
    ELSE IF part[1] \in {T("<p>"), T("<ul>"), T("<ol>"), T("<div>")}
    THEN [type |-> "paragraph", content |-> part]
    ELSE [type |-> "paragraph", content |-> <<T("<p>")>> \o part \o <<T("</p>")>>]

\* InternalLinker._split_content_into_sections
SplitContentIntoSections(html) ==
    LET parts == ReSplit(html)
        stripped == NonEmpty([k \in 1..Len(parts) |-> Strip(parts[k])])
    IN [k \in 1..Len(stripped) |-> SectionOf(stripped[k])]

-----------------------------------------------------------------------------
(* Candidate generation.                                                   *)

\* the adjusted score without the bonus of lines 377-378
AdjustedScoreNoBonus(text, url_item, current_distribution, remaining_slots) ==
    LET score == CalculateMatchScore(text, url_item)
        type_count == current_distribution[url_item.url_type]
    IN IF 3 * type_count > remaining_slots THEN FHalf(score) ELSE score

\* lines 371-382: the adjusted score of one entry
AdjustedScore(text, url_item, current_distribution, remaining_slots) ==
    LET score == CalculateMatchScore(text, url_item)
        type_count == current_distribution[url_item.url_type]
        boosted == IF url_item.url_type = "category"
                   THEN FBoost(score) ELSE score
    IN IF 3 * type_count > remaining_slots THEN FHalf(boosted) ELSE boosted

\* the threshold of line 390, 0.15
ScoreThreshold == 1500

\* the test of line 390 with >= in place of >: a best score of exactly 0.15
\* is good enough
BestAtThreshold(scores) ==
    IF scores = <<>> THEN 0
    ELSE LET best == CHOOSE k \in 1..Len(scores) :
                         /\ \A j \in 1..Len(scores) : scores[j] <= scores[k]
                         /\ \A j \in 1..(k - 1) : scores[j] < scores[k]
         IN IF scores[best] >= ScoreThreshold THEN best ELSE 0

\* lines 387-393 on the list of adjusted scores: the position of the entry
\* returned, 0 for None.  The sort of line 387 is stable, so among equal
\* scores the first entry of the list stays first.
BestAboveThreshold(scores) ==
    IF scores = <<>> THEN 0
    ELSE LET best == CHOOSE k \in 1..Len(scores) :
                         /\ \A j \in 1..Len(scores) : scores[j] <= scores[k]
                         /\ \A j \in 1..(k - 1) : scores[j] < scores[k]
         IN IF scores[best] > ScoreThreshold THEN best ELSE 0

\* InternalLinker._find_best_url_for_section: a position in us, 0 for None
FindBestUrlForSection(section_html, us, current_distribution, remaining_slots) ==
    BestAboveThreshold(
        [k \in 1..Len(us) |->
            AdjustedScore(Lower(StripTags(section_html)), us[k],
                          current_distribution, remaining_slots)])

-----------------------------------------------------------------------------
(* Selection.                                                              *)

\* list.sort(key=score, reverse=True): stable, descending
RECURSIVE SortByScore(_)
SortByScore(links) ==
    IF links = <<>> THEN <<>>
    ELSE LET n == Len(links)
             front == SortByScore(SubSeq(links, 1, n - 1))
             x == links[n]
             keep == Cardinality({k \in 1..(n - 1) : front[k].score >= x.score})
         IN SubSeq(front, 1, keep) \o <<x>> \o SubSeq(front, keep + 1, n - 1)

Abs(a) == IF a < 0 THEN 0 - a ELSE a

SectionIndices(links) == {links[k].section_index : k \in 1..Len(links)}

\* the nearest link without the test of lines 667-668: a link whose section
\* is already used can be picked again
NearestLinkUsedToo(sorted_links, used_indices, target_position) ==
    LET free == 1..Len(sorted_links)
        dist(k) == Abs(sorted_links[k].section_index - target_position)
    IN IF free = {} THEN 0
       ELSE CHOOSE k \in free :
                /\ \A j \in free : dist(k) <= dist(j)
                /\ \A j \in free : j < k => dist(k) < dist(j)

\* lines 662-672: the link nearest to target_position among those whose
\* section is not used; the first such link in sorted order wins a tie.
\* The position in sorted_links, 0 if there is none.
NearestLink(sorted_links, used_indices, target_position) ==
    LET free == {k \in 1..Len(sorted_links) :
                    sorted_links[k].section_index \notin used_indices}
        dist(k) == Abs(sorted_links[k].section_index - target_position)
    IN IF free = {} THEN 0
       ELSE CHOOSE k \in free :
                /\ \A j \in free : dist(k) <= dist(j)
                /\ \A j \in free : j < k => dist(k) < dist(j)

\* lines 660-676: the walk over range(target_position, total_sections, step)
RECURSIVE TargetWalk(_, _, _, _, _, _)
TargetWalk(sorted_links, max, total_sections, step, target_position, selected) ==
    IF target_position >= total_sections THEN selected
    ELSE LET best == NearestLink(sorted_links, SectionIndices(selected),
                                 target_position)
             next == IF best # 0 /\ Len(selected) < max
                     THEN Append(selected, sorted_links[best])
                     ELSE selected
         IN TargetWalk(sorted_links, max, total_sections, step,
                       target_position + step, next)

\* Backfill without the budget test of line 679
RECURSIVE BackfillNoBudget(_, _, _)
BackfillNoBudget(sorted_links, max, selected) ==
    LET free == {k \in 1..Len(sorted_links) :
                    sorted_links[k].section_index \notin SectionIndices(selected)}
    IN IF Len(selected) < Len(sorted_links) /\ free # {}
       THEN BackfillNoBudget(sorted_links, max,
                Append(selected,
                       sorted_links[CHOOSE k \in free : \A j \in free : k <= j]))
       ELSE selected

\* lines 679-686: the best remaining links fill the budget
RECURSIVE Backfill(_, _, _)
Backfill(sorted_links, max, selected) ==
    LET free == {k \in 1..Len(sorted_links) :
                    sorted_links[k].section_index \notin SectionIndices(selected)}
    IN IF Len(selected) < max /\ Len(selected) < Len(sorted_links) /\ free # {}
       THEN Backfill(sorted_links, max,
                Append(selected,
                       sorted_links[CHOOSE k \in free : \A j \in free : k <= j]))
       ELSE selected

\* int(target_spacing), line 660
SpacingStep(max, total_sections) == total_sections \div max

\* range(0, total_sections, 0) raises ValueError
SelectRaises(links, max, total_sections) ==
    /\ links # <<>>
    /\ max > 0
    /\ SpacingStep(max, total_sections) = 0

\* InternalLinker._select_links_with_even_distribution, when it returns
SelectLinksWithEvenDistribution(links, max, total_sections) ==
    IF links = <<>> \/ max <= 0 THEN <<>>
    ELSE LET sorted_links == SortByScore(links) IN
         Backfill(sorted_links, max,
             TargetWalk(sorted_links, max, total_sections,
                        SpacingStep(max, total_sections), 0, <<>>))

-----------------------------------------------------------------------------
(* Anchor text.  None is the empty string <<>>: the caller tests           *)
(* `if not anchor_text`, which treats both alike.                          *)

None == <<>>

\* the search that returns the needle as it is spelled in the title or
\* keyword when the text holds it in any letter case
SearchReturnsNeedle(needle, text) ==
    IF needle = <<>> \/ ~Occurs(Lower(needle), Lower(text)) THEN None
    ELSE needle

\* re.search(re.escape(needle), text, re.IGNORECASE).group(0): the first
\* stretch of text that equals needle up to letter case; None if no match
SearchIgnoreCase(needle, text) ==
    LET hits == {k \in 1..Len(text) : OccursAt(Lower(needle), Lower(text), k)} IN
    IF hits = {} \/ needle = <<>> THEN None
    ELSE LET k == CHOOSE a \in hits : \A b \in hits : a <= b
         IN SubSeq(text, k, k + Len(needle) - 1)

\* ' '.join(words) for a list of strings
RECURSIVE JoinSpace(_)
JoinSpace(words) ==
    IF words = <<>> THEN <<>>
    ELSE IF Len(words) = 1 THEN words[1]
    ELSE words[1] \o <<SP>> \o JoinSpace(Tail(words))

\* lines 532-536
AnchorExactTitle(text, url_item) ==
    IF Occurs(Lower(url_item.title), Lower(text))
    THEN SearchIgnoreCase(url_item.title, text)
    ELSE None

\* lines 545-549 and 567-571 for one word_count: the phrase is compared
\* with the lower-cased text as it is spelled in the title
AnchorFirstWords(text, title_words, n) ==
    IF Len(title_words) >= n
    THEN LET phrase == JoinSpace(SubSeq(title_words, 1, n)) IN
         IF Occurs(phrase, Lower(text)) THEN SearchIgnoreCase(phrase, text)
         ELSE None
    ELSE None

\* the first result that is not None
FirstOf(a, b) == IF a # None THEN a ELSE b

\* product_words, in transliteration
product_words ==
    { "bazr", "kasht", "abyari", "gol", "giah", "khak", "kood", "nahal",
      "daneh", "tokhm", "bagh", "golkhaneh", "baghcheh", "booteh", "shakheh",
      "piaz", "gojeh", "havij", "kahoo", "kalam", "felfel", "khiar",
      "bademjan", "kadoo", "esfenaj", "jafari", "shevid", "reyhan",
      "nana", "lilium", "begonia", "aftabgardan", "golroz", "yasaman" }

IsProductWord(word) ==
    Len(word) = 1 /\ word[1].t = "w" /\ LowerWord(word[1].s) \in product_words

\* lines 613-627 for the title word at position k
SemanticAnchorAt(text, title_words, k) ==
    LET word == title_words[k]
        word_index == CHOOSE j \in 1..Len(title_words) :
                          /\ title_words[j] = word
                          /\ \A i \in 1..(j - 1) : title_words[i] # word
        phrase == word \o <<SP>> \o title_words[word_index + 1]
    IN IF IsProductWord(word) /\ Occurs(Lower(word), Lower(text))
       THEN IF /\ word_index + 1 <= Len(title_words)
               /\ Occurs(Lower(phrase), Lower(text))
            THEN SearchIgnoreCase(phrase, text)
            ELSE SearchIgnoreCase(word, text)
       ELSE None

\* InternalLinker._find_semantic_anchor_text
RECURSIVE SemanticFrom(_, _, _)
SemanticFrom(text, title_words, k) ==
    IF k > Len(title_words) THEN None
    ELSE FirstOf(SemanticAnchorAt(text, title_words, k),
                 SemanticFrom(text, title_words, k + 1))

FindSemanticAnchorText(text, title_words) == SemanticFrom(text, title_words, 1)

\* sorted(keywords, key=len, reverse=True): stable, longest first
RECURSIVE SortByLen(_)
SortByLen(words) ==
    IF words = <<>> THEN <<>>
    ELSE LET n == Len(words)
             front == SortByLen(SubSeq(words, 1, n - 1))
             x == words[n]
             keep == Cardinality({k \in 1..(n - 1) : StrLen(front[k]) >= StrLen(x)})
         IN SubSeq(front, 1, keep) \o <<x>> \o SubSeq(front, keep + 1, n - 1)

\* lines 557-562
RECURSIVE AnchorKeyword(_, _)
AnchorKeyword(text, sorted_keywords) ==
    IF sorted_keywords = <<>> THEN None
    ELSE LET keyword == sorted_keywords[1] IN
         FirstOf(IF StrLen(keyword) > 2 /\ Occurs(Lower(keyword), Lower(text))
                 THEN SearchIgnoreCase(keyword, text) ELSE None,
                 AnchorKeyword(text, Tail(sorted_keywords)))

\* lines 573-587: the loop computes best_match and the function ends without
\* returning it, so the fallback yields None whatever the text
AnchorFuzzy(text, url_item) == None

\* InternalLinker._find_best_anchor_text
FindBestAnchorText(text, url_item) ==
    LET title_words == Split(url_item.title) IN
    FirstOf(AnchorExactTitle(text, url_item),
    FirstOf(AnchorFirstWords(text, title_words, 2),
    FirstOf(AnchorFirstWords(text, title_words, 3),
    FirstOf(FindSemanticAnchorText(text, title_words),
    FirstOf(AnchorKeyword(text, SortByLen(url_item.keywords)),
    FirstOf(AnchorFirstWords(text, title_words, 4),
    FirstOf(AnchorFirstWords(text, title_words, 5),
            AnchorFuzzy(text, url_item))))))))

-----------------------------------------------------------------------------
(* The similarity ratio of the fuzzy fallback, lines 573-587:              *)
(* difflib.SequenceMatcher(None, a, b).ratio() on the characters of two    *)
(* strings.  The strings are far shorter than 200 characters, so the       *)
(* matcher's automatic junk heuristic never applies.                       *)

\* the characters of a lower-case word of the vocabulary; a transliterated
\* Persian word has the letters of the Persian word (kh, gh and oo are one
\* letter each); any other lexeme (a space, a punctuation mark) is one
\* character
Letters(s) ==
    CASE s = "and" -> <<"a", "n", "d">>
      [] s = "article" -> <<"a", "r", "t", "i", "c", "l", "e">>
      [] s = "bandi" -> <<"b", "n", "d", "i">>
      [] s = "big" -> <<"b", "i", "g">>
      [] s = "blog" -> <<"b", "l", "o", "g">>
      [] s = "cat" -> <<"c", "a", "t">>
      [] s = "categories" -> <<"c", "a", "t", "e", "g", "o", "r", "i", "e", "s">>
      [] s = "category" -> <<"c", "a", "t", "e", "g", "o", "r", "y">>
      [] s = "com" -> <<"c", "o", "m">>
      [] s = "dasteh" -> <<"d", "s", "t", "h">>
      [] s = "end" -> <<"e", "n", "d">>
      [] s = "here" -> <<"h", "e", "r", "e">>
      [] s = "https" -> <<"h", "t", "t", "p", "s">>
      [] s = "khak" -> <<"kh", "a", "k">>
      [] s = "kit" -> <<"k", "i", "t">>
      [] s = "kood" -> <<"k", "oo", "d">>
      [] s = "maghaleh" -> <<"m", "gh", "a", "l", "h">>
      [] s = "mahsool" -> <<"m", "hh", "ss", "oo", "l">>
      [] s = "org" -> <<"o", "r", "g">>
      [] s = "other" -> <<"o", "t", "h", "e", "r">>
      [] s = "p" -> <<"p">>
      [] s = "page" -> <<"p", "a", "g", "e">>
      [] s = "post" -> <<"p", "o", "s", "t">>
      [] s = "product" -> <<"p", "r", "o", "d", "u", "c", "t">>
      [] s = "seeds" -> <<"s", "e", "e", "d", "s">>
      [] s = "sell" -> <<"s", "e", "l", "l">>
      [] s = "shop" -> <<"s", "h", "o", "p">>
      [] s = "the" -> <<"t", "h", "e">>
      [] s = "tools" -> <<"t", "o", "o", "l", "s">>
      [] s = "uv" -> <<"u", "v">>
      [] s = "we" -> <<"w", "e">>
      [] s = "weblog" -> <<"w", "e", "b", "l", "o", "g">>
      [] s = "x" -> <<"x">>
      [] s = ".html" -> <<".", "h", "t", "m", "l">>
      [] s = ".htm" -> <<".", "h", "t", "m">>
      [] s = ".php" -> <<".", "p", "h", "p">>
      [] s = "://" -> <<":", "/", "/">>
      [] OTHER -> <<s>>

\* the characters of str.lower(), line breaks and spaces being one space
RECURSIVE Spell(_)
Spell(str) ==
    IF str = <<>> THEN <<>>
    ELSE (IF IsSpace(str[1]) THEN <<" ">> ELSE Letters(LowerWord(str[1].s)))
         \o Spell(Tail(str))

\* the length of the longest common run of a from i and b from j, inside
\* a[..ahi] and b[..bhi]
RECURSIVE RunLength(_, _, _, _, _, _)
RunLength(a, b, i, j, ahi, bhi) ==
    IF i > ahi \/ j > bhi \/ a[i] # b[j] THEN 0
    ELSE 1 + RunLength(a, b, i + 1, j + 1, ahi, bhi)

\* SequenceMatcher.find_longest_match(alo, ahi, blo, bhi): <<i, j, k>>, the
\* longest block a[i .. i+k-1] = b[j .. j+k-1]; of the longest blocks the
\* one that starts earliest in a, and of those the earliest in b
FindLongestMatch(a, b, alo, ahi, blo, bhi) ==
    LET starts == (alo..ahi) \X (blo..bhi)
        size(x) == RunLength(a, b, x[1], x[2], ahi, bhi)
        best == CHOOSE x \in starts :
                    \A y \in starts :
                        \/ size(y) < size(x)
                        \/ size(y) = size(x)
                           /\ (x[1] < y[1] \/ (x[1] = y[1] /\ x[2] <= y[2]))
    IN <<best[1], best[2], size(best)>>

\* the number of matched characters: the sum of the sizes of
\* SequenceMatcher.get_matching_blocks()
RECURSIVE Matches(_, _, _, _, _, _)
Matches(a, b, alo, ahi, blo, bhi) ==
    IF alo > ahi \/ blo > bhi THEN 0
    ELSE LET m == FindLongestMatch(a, b, alo, ahi, blo, bhi) IN
         IF m[3] = 0 THEN 0
         ELSE m[3] + Matches(a, b, alo, m[1] - 1, blo, m[2] - 1)
                   + Matches(a, b, m[1] + m[3], ahi, m[2] + m[3], bhi)

\* ratio() = 2.0 * matches / (len(a) + len(b)), as the pair <<2 * matches,
\* len(a) + len(b)>>
Ratio(a, b) == <<2 * Matches(a, b, 1, Len(a), 1, Len(b)), Len(a) + Len(b)>>

\* r > q for two ratios with positive denominators
RatioAbove(r, q) == r[1] * q[2] > q[1] * r[2]

\* the windows of lines 578-580: <<i, length>> stands for
\* ' '.join(text_words[i : i + length]), in the order of the two loops
WindowText(text_words, w) == JoinSpace(SubSeq(text_words, w[1], w[1] + w[2] - 1))

WindowRatio(text_words, w, title) ==
    Ratio(Spell(WindowText(text_words, w)), Spell(title))

\* best_match of lines 575-587 when the loops end: the window with the best
\* ratio above 0.6, the first in the order of the loops among equal ratios;
\* None when no window has a ratio above 0.6
BestFuzzyWindow(text, title) ==
    LET text_words == Split(text)
        n == Len(text_words)
        windows == {w \in (1..n) \X (1..5) : w[1] + w[2] - 1 <= n}
        good == {w \in windows :
                    RatioAbove(WindowRatio(text_words, w, title), <<6, 10>>)}
        before(v, w) == v[1] < w[1] \/ (v[1] = w[1] /\ v[2] < w[2])
    IN IF good = {} THEN None
       ELSE WindowText(text_words,
                CHOOSE w \in good :
                    \A v \in good \ {w} :
                        \/ RatioAbove(WindowRatio(text_words, w, title),
                                      WindowRatio(text_words, v, title))
                        \/ /\ ~RatioAbove(WindowRatio(text_words, v, title),
                                          WindowRatio(text_words, w, title))
                           /\ before(w, v))

-----------------------------------------------------------------------------
(* Injection.                                                              *)

UrlIndex(url) == CHOOSE k \in 1..Len(UrlUniverse) : UrlUniverse[k] = url

\* line 504: f'<a href="{url}">{anchor_text}</a>'
LinkHtml(url, anchor_text) == <<AOpen(UrlIndex(url))>> \o anchor_text \o <<AClose>>

\* The pattern of line 509 at position k of the markup, as a regular
\* expression engine that accepts it would match it:
\*   (?<!</?a[^>]*>)  no anchor tag ends right before k
\*   \b anchor \b     the anchor text, ignoring case, as whole words
\*   (?![^<]*</a>)    no </a> follows before the next tag
\* An occurrence inside the href of an anchor tag is followed by the anchor's
\* text and </a>, so it never matches; the lexemes of the markup are enough.
PatternMatchesAt(anchor_text, html, k) ==
    LET e == k + Len(anchor_text) - 1 IN
    /\ OccursAt(Lower(anchor_text), Lower(html), k)
    /\ k = 1 \/ html[k - 1].s \notin {"<a>", "</a>"}
    /\ k = 1 \/ html[k - 1].t # "w"
    /\ e = Len(html) \/ html[e + 1].t # "w"
    /\ ~ \E j \in (e + 1)..Len(html) :
            /\ html[j] = AClose
            /\ \A i \in (e + 1)..(j - 1) : ~IsTag(html[i])

\* re.sub(pattern, link_html, section_html, count=1) with such an engine
ReSubCompiled(anchor_text, link_html, section_html) ==
    LET hits == {k \in 1..Len(section_html) :
                    PatternMatchesAt(anchor_text, section_html, k)} IN
    IF hits = {} THEN [raised |-> FALSE, html |-> section_html]
    ELSE LET k == CHOOSE a \in hits : \A b \in hits : a <= b IN
         [raised |-> FALSE,
          html |-> SubSeq(section_html, 1, k - 1) \o link_html
                   \o SubSeq(section_html, k + Len(anchor_text), Len(section_html))]

\* lines 509-510.  The pattern starts with the look-behind (?<!</?a[^>]*>),
\* whose width is not fixed; Python's re module refuses to compile such a
\* pattern ("look-behind requires fixed-width pattern"), so re.sub raises
\* re.error for every anchor text and every markup.
ReSub(anchor_text, link_html, section_html) ==
    [raised |-> TRUE, html |-> section_html]

\* _add_link_to_section without the test of line 490
AddLinkToSectionNoUrlCheck(section_html, url_item) ==
    IF FindBestAnchorText(StripTags(section_html), url_item) = None
    THEN [raised |-> FALSE, html |-> section_html]
    ELSE ReSub(FindBestAnchorText(StripTags(section_html), url_item),
               LinkHtml(url_item.url,
                        FindBestAnchorText(StripTags(section_html), url_item)),
               section_html)

\* the injector that emits a link with an empty anchor text at the end of
\* the section when the anchor selector returned None
AddLinkToSectionEmptyAnchor(section_html, url_item) ==
    IF In(url_item.url, section_html)
    THEN [raised |-> FALSE, html |-> section_html]
    ELSE LET text == StripTags(section_html)
             anchor_text == FindBestAnchorText(text, url_item)
         IN IF anchor_text = None
            THEN [raised |-> FALSE,
                  html |-> section_html \o LinkHtml(url_item.url, None)]
            ELSE ReSub(anchor_text, LinkHtml(url_item.url, anchor_text),
                       section_html)

\* InternalLinker._add_link_to_section: [raised, html]
AddLinkToSection(section_html, url_item) ==
    IF In(url_item.url, section_html)
    THEN [raised |-> FALSE, html |-> section_html]
    ELSE LET text == StripTags(section_html)
             anchor_text == FindBestAnchorText(text, url_item)
         IN IF anchor_text = None
            THEN [raised |-> FALSE, html |-> section_html]
            ELSE ReSub(anchor_text, LinkHtml(url_item.url, anchor_text),
                       section_html)

-----------------------------------------------------------------------------
(* Inputs.                                                                 *)

\* the sitemap lists an engine is constructed from (indices in UrlUniverse)
Sitemaps == { <<>>, <<1>>, <<1, 3>>, <<4, 1>>, <<3, 2>>, <<7>> }

SitemapUrls(sitemap) == [k \in 1..Len(sitemap) |-> UrlUniverse[sitemap[k]]]

\* the fragments articles are made of
Fragments == {
    \* <p>We sell Seeds</p>
    <<T("<p>"), W("We"), SP, W("sell"), SP, W("Seeds"), T("</p>")>>,
    \* <h2>Seeds</h2>
    <<T("<h2>"), W("Seeds"), T("</h2>")>>,
    \* <div><h3>seeds</h3></div>
    <<T("<div>"), T("<h3>"), W("seeds"), T("</h3>"), T("</div>")>>,
    \* <p><a href="https://other.org/page">seeds</a></p>
    <<T("<p>"), AOpen(6), W("seeds"), AClose, T("</p>")>>,
    \* <p><a href="https://x.com/category/seeds-kit">kit</a> seeds</p>
    <<T("<p>"), AOpen(5), W("kit"), AClose, SP, W("seeds"), T("</p>")>>,
    \* " Tools here\n", text outside any block
    <<SP, W("Tools"), SP, W("here"), NL>>,
    \* <p>the end</p>
    <<T("<p>"), W("the"), SP, W("end"), T("</p>")>>,
    \* <p>uv blog</p>
    <<T("<p>"), W("uv"), SP, W("blog"), T("</p>")>>,
    \* <p>Seeds</p><p>Big Seeds and Tools</p>
    <<T("<p>"), W("Seeds"), T("</p>"), T("<p>"), W("Big"), SP, W("Seeds"), SP,
      W("and"), SP, W("Tools"), T("</p>")>> }

\* the articles: at most MaxBlocks fragments, one after the other
RECURSIVE ArticlesOf(_)
ArticlesOf(n) ==
    IF n = 0 THEN {<<>>}
    ELSE LET shorter == ArticlesOf(n - 1) IN
         shorter \cup {a \o f : a \in shorter, f \in Fragments}

Articles == ArticlesOf(MaxBlocks)

\* the default of the parameter words_per_link, line 178
DefaultWordsPerLink == <<300, 400>>

\* the argument pairs (max_links, words_per_link) of a call
CallArgs ==
    {[max_links |-> [some |-> TRUE, v |-> n], words_per_link |-> DefaultWordsPerLink] :
        n \in 0..MaxLinksArg}
    \cup {[max_links |-> [some |-> FALSE, v |-> 0], words_per_link |-> w] :
        w \in {DefaultWordsPerLink, <<2, 3>>}}

-----------------------------------------------------------------------------
(* The call add_internal_links(content_html, max_links, words_per_link).   *)

UrlTypes == {"category", "product", "blog", "other"}

\* the budget computed from the lower end of words_per_link alone
ComputeMaxLinksByMin(wc, wpl) == wc \div wpl[1]

\* lines 197-198: int(word_count / (sum(words_per_link) / 2))
ComputeMaxLinks(wc, wpl) == (2 * wc) \div (wpl[1] + wpl[2])

\* '\n'.join(list)
RECURSIVE JoinLines(_)
JoinLines(strs) ==
    IF strs = <<>> THEN <<>>
    ELSE IF Len(strs) = 1 THEN strs[1]
    ELSE strs[1] \o <<NL>> \o JoinLines(Tail(strs))

\* the locals of add_internal_links before the call has assigned them
NoLocals ==
    /\ word_count = 0
    /\ max_links = 0
    /\ sections = <<>>
    /\ potential_links = <<>>
    /\ selected_links = <<>>
    /\ idx = 0
    /\ links_added = 0
    /\ link_distribution = [t \in UrlTypes |-> 0]
    /\ used_urls = {}
    /\ modified_sections = <<>>
    /\ result = <<>>
    /\ exc = ""

\* get_statistics has not been called
NoStats == [total_urls |-> 0 - 1, by_type |-> <<>>, sample_urls |-> <<>>]

Init ==
    /\ \E sitemap \in Sitemaps : sitemap_urls = SitemapUrls(sitemap)
    /\ urls = CategorizeUrls(sitemap_urls)
    /\ stats = NoStats
    /\ other = <<>>
    /\ content_html \in Articles
    /\ \E a \in CallArgs :
          /\ max_links_arg = a.max_links
          /\ words_per_link = a.words_per_link
    /\ pc = "start"
    /\ NoLocals

\* lines 191-200
Budget ==
    /\ pc = "start"
    /\ word_count' = Len(Split(StripTags(content_html)))
    /\ max_links' = IF max_links_arg.some THEN max_links_arg.v
                    ELSE ComputeMaxLinks(word_count', words_per_link)
    /\ pc' = "catalog"
    /\ UNCHANGED <<env, urls, content_html, max_links_arg, words_per_link, sections,
                   potential_links, selected_links, idx, links_added,
                   link_distribution, used_urls, modified_sections, result, exc>>

\* the call without the early return of line 207: with no URL no section
\* gets a candidate and the sections are joined as they are
ReturnNoUrlsFallsThrough ==
    /\ pc = "catalog"
    /\ GetPrioritizedUrls(urls) = <<>>
    /\ result' = JoinLines([k \in 1..Len(SplitContentIntoSections(content_html)) |->
                               SplitContentIntoSections(content_html)[k].content])
    /\ pc' = "done"
    /\ UNCHANGED <<env, urls, content_html, max_links_arg, words_per_link, word_count,
                   max_links, sections, potential_links, selected_links, idx,
                   links_added, link_distribution, used_urls, modified_sections,
                   exc>>

\* lines 203-207
ReturnNoUrls ==
    /\ pc = "catalog"
    /\ GetPrioritizedUrls(urls) = <<>>
    /\ result' = content_html
    /\ pc' = "done"
    /\ UNCHANGED <<env, urls, content_html, max_links_arg, words_per_link, word_count,
                   max_links, sections, potential_links, selected_links, idx,
                   links_added, link_distribution, used_urls, modified_sections,
                   exc>>

\* the call with potential_links kept from one call to the next, as a list
\* of the engine that line 221 does not empty
SplitSectionsKeepsLinks ==
    /\ pc = "catalog"
    /\ GetPrioritizedUrls(urls) # <<>>
    /\ sections' = SplitContentIntoSections(content_html)
    /\ links_added' = 0
    /\ link_distribution' = [t \in UrlTypes |-> 0]
    /\ used_urls' = {}
    /\ modified_sections' = <<>>
    /\ potential_links' = potential_links
    /\ idx' = 1
    /\ pc' = "first_pass"
    /\ UNCHANGED <<env, urls, content_html, max_links_arg, words_per_link, word_count,
                   max_links, selected_links, result, exc>>

\* lines 210-221
SplitSections ==
    /\ pc = "catalog"
    /\ GetPrioritizedUrls(urls) # <<>>
    /\ sections' = SplitContentIntoSections(content_html)
    /\ links_added' = 0
    /\ link_distribution' = [t \in UrlTypes |-> 0]
    /\ used_urls' = {}
    /\ modified_sections' = <<>>
    /\ potential_links' = <<>>
    /\ idx' = 1
    /\ pc' = "first_pass"
    /\ UNCHANGED <<env, urls, content_html, max_links_arg, words_per_link, word_count,
                   max_links, selected_links, result, exc>>

\* lines 235-241: the candidate of section i for the entry url_item
Candidate(section, i, url_item) ==
    [section_index |-> i,
     url |-> url_item,
     score |-> CalculateMatchScore(Lower(section.content), url_item),
     content |-> section.content]

\* the first pass without the test of line 223: a heading is scored like
\* any other section
LinksAfterSectionHeadingsToo(links, section, i, priority_urls, best, used) ==
    IF /\ best # 0
       /\ priority_urls[best].url \notin used
    THEN Append(links, Candidate(section, i, priority_urls[best]))
    ELSE links

\* lines 223-241: potential_links after section i, best being the position
\* in priority_urls that _find_best_url_for_section returned
LinksAfterSection(links, section, i, priority_urls, best, used) ==
    IF /\ section.type # "heading"
       /\ best # 0
       /\ priority_urls[best].url \notin used
    THEN Append(links, Candidate(section, i, priority_urls[best]))
    ELSE links

\* the iteration of the first pass that also marks the URL of the candidate
\* as used, as line 274 does in the second pass
FirstPassStepMarksUsed ==
    /\ pc = "first_pass"
    /\ idx <= Len(sections)
    /\ potential_links' =
         LinksAfterSection(potential_links, sections[idx], idx - 1,
             GetPrioritizedUrls(urls),
             FindBestUrlForSection(sections[idx].content,
                 GetPrioritizedUrls(urls), link_distribution,
                 max_links - Len(potential_links)),
             used_urls)
    /\ used_urls' = used_urls \cup
         {potential_links'[k].url.url : k \in 1..Len(potential_links')}
    /\ idx' = idx + 1
    /\ UNCHANGED <<env, urls, content_html, max_links_arg, words_per_link, pc,
                   word_count, max_links, sections, selected_links, links_added,
                   link_distribution, modified_sections, result, exc>>

\* lines 222-241, one iteration of the first pass
FirstPassStep ==
    /\ pc = "first_pass"
    /\ idx <= Len(sections)
    /\ potential_links' =
         LinksAfterSection(potential_links, sections[idx], idx - 1,
             GetPrioritizedUrls(urls),
             FindBestUrlForSection(sections[idx].content,
                 GetPrioritizedUrls(urls), link_distribution,
                 max_links - Len(potential_links)),
             used_urls)
    /\ idx' = idx + 1
    /\ UNCHANGED <<env, urls, content_html, max_links_arg, words_per_link, pc,
                   word_count, max_links, sections, selected_links, links_added,
                   link_distribution, used_urls, modified_sections, result, exc>>

\* lines 244-249, when range() raises ValueError at line 660
SelectRaisesValueError ==
    /\ pc = "first_pass"
    /\ idx > Len(sections)
    /\ SelectRaises(SortByScore(potential_links), max_links, Len(sections))
    /\ potential_links' = SortByScore(potential_links)
    /\ pc' = "raised"
    /\ exc' = "ValueError"
    /\ UNCHANGED <<env, urls, content_html, max_links_arg, words_per_link, word_count,
                   max_links, sections, selected_links, idx, links_added,
                   link_distribution, used_urls, modified_sections, result>>

\* lines 244-252
SelectLinks ==
    /\ pc = "first_pass"
    /\ idx > Len(sections)
    /\ ~SelectRaises(SortByScore(potential_links), max_links, Len(sections))
    /\ potential_links' = SortByScore(potential_links)
    /\ selected_links' = SelectLinksWithEvenDistribution(potential_links',
                             max_links, Len(sections))
    /\ idx' = 1
    /\ pc' = "second_pass"
    /\ UNCHANGED <<env, urls, content_html, max_links_arg, words_per_link, word_count,
                   max_links, sections, links_added, link_distribution,
                   used_urls, modified_sections, result, exc>>

\* line 262: next(link for link in selected_links if link['section_index'] == i)
SelectedLinkFor(selected, i) ==
    selected[CHOOSE k \in 1..Len(selected) :
                /\ selected[k].section_index = i
                /\ \A j \in 1..(k - 1) : selected[j].section_index # i]

\* lines 254-282, one iteration of the second pass for a section that is a
\* heading or was not selected
KeepSection ==
    /\ pc = "second_pass"
    /\ idx <= Len(sections)
    /\ \/ sections[idx].type = "heading"
       \/ (idx - 1) \notin SectionIndices(selected_links)
    /\ modified_sections' = Append(modified_sections, sections[idx].content)
    /\ idx' = idx + 1
    /\ UNCHANGED <<env, urls, content_html, max_links_arg, words_per_link, pc,
                   word_count, max_links, sections, potential_links,
                   selected_links, links_added, link_distribution, used_urls,
                   result, exc>>

\* the iteration for a selected section without the test of line 270: the
\* link is counted whatever the injector returned
LinkSectionCountsAlways ==
    /\ pc = "second_pass"
    /\ idx <= Len(sections)
    /\ sections[idx].type # "heading"
    /\ (idx - 1) \in SectionIndices(selected_links)
    /\ LET section == sections[idx]
           selected_link == SelectedLinkFor(selected_links, idx - 1)
           added == AddLinkToSection(section.content, selected_link.url)
       IN IF added.raised
          THEN /\ pc' = "raised"
               /\ exc' = "re.error"
               /\ UNCHANGED <<idx, modified_sections, links_added,
                              link_distribution, used_urls>>
          ELSE /\ pc' = pc
               /\ exc' = exc
               /\ idx' = idx + 1
               /\ modified_sections' = Append(modified_sections, added.html)
               /\ links_added' = links_added + 1
               /\ link_distribution' =
                    [link_distribution EXCEPT
                        ![selected_link.url.url_type] = @ + 1]
               /\ used_urls' = used_urls \cup {selected_link.url.url}
    /\ UNCHANGED <<env, urls, content_html, max_links_arg, words_per_link,
                   word_count, max_links, sections, potential_links,
                   selected_links, result>>

\* lines 260-280, one iteration of the second pass for a selected section
LinkSection ==
    /\ pc = "second_pass"
    /\ idx <= Len(sections)
    /\ sections[idx].type # "heading"
    /\ (idx - 1) \in SectionIndices(selected_links)
    /\ LET section == sections[idx]
           selected_link == SelectedLinkFor(selected_links, idx - 1)
           added == AddLinkToSection(section.content, selected_link.url)
       IN IF added.raised
          THEN /\ pc' = "raised"
               /\ exc' = "re.error"
               /\ UNCHANGED <<idx, modified_sections, links_added,
                              link_distribution, used_urls>>
          ELSE /\ pc' = pc
               /\ exc' = exc
               /\ idx' = idx + 1
               /\ modified_sections' = Append(modified_sections, added.html)
               /\ IF added.html # section.content
                  THEN /\ links_added' = links_added + 1
                       /\ link_distribution' =
                            [link_distribution EXCEPT
                                ![selected_link.url.url_type] = @ + 1]
                       /\ used_urls' = used_urls \cup {selected_link.url.url}
                  ELSE UNCHANGED <<links_added, link_distribution, used_urls>>
    /\ UNCHANGED <<env, urls, content_html, max_links_arg, words_per_link,
                   word_count, max_links, sections, potential_links,
                   selected_links, result>>

\* lines 285-292
JoinAndReturn ==
    /\ pc = "second_pass"
    /\ idx > Len(sections)
    /\ result' = JoinLines(modified_sections)
    /\ pc' = "done"
    /\ UNCHANGED <<env, urls, content_html, max_links_arg, words_per_link, word_count,
                   max_links, sections, potential_links, selected_links, idx,
                   links_added, link_distribution, used_urls, modified_sections,
                   exc>>

Next ==
    \/ Budget
    \/ ReturnNoUrls
    \/ SplitSections
    \/ FirstPassStep
    \/ SelectRaisesValueError
    \/ SelectLinks
    \/ KeepSection
    \/ LinkSection
    \/ JoinAndReturn

Spec == Init /\ [][Next]_vars

-----------------------------------------------------------------------------
(* The call as a function of the catalog and of its arguments.             *)

\* lines 222-241 from section i on, nothing injected and no URL used yet
RECURSIVE FirstPass(_, _, _, _, _)
FirstPass(secs, i, links, priority_urls, max) ==
    IF i > Len(secs) THEN links
    ELSE FirstPass(secs, i + 1,
             LinksAfterSection(links, secs[i], i - 1, priority_urls,
                 FindBestUrlForSection(secs[i].content, priority_urls,
                     [t \in UrlTypes |-> 0], max - Len(links)),
                 {}),
             priority_urls, max)

\* lines 254-282 from section i on: the sections as modified, or raised
RECURSIVE SecondPass(_, _, _, _)
SecondPass(secs, i, selected, modified) ==
    IF i > Len(secs) THEN [raised |-> FALSE, sections |-> modified]
    ELSE IF secs[i].type = "heading" \/ (i - 1) \notin SectionIndices(selected)
    THEN SecondPass(secs, i + 1, selected, Append(modified, secs[i].content))
    ELSE LET added == AddLinkToSection(secs[i].content,
                                       SelectedLinkFor(selected, i - 1).url)
         IN IF added.raised THEN [raised |-> TRUE, sections |-> modified]
            ELSE SecondPass(secs, i + 1, selected, Append(modified, added.html))

\* lines 244-292 for the candidates of the first pass
OutcomeFrom(secs, links, max) ==
    IF SelectRaises(links, max, Len(secs))
    THEN [pc |-> "raised", exc |-> "ValueError", result |-> <<>>]
    ELSE LET second == SecondPass(secs, 1,
                 SelectLinksWithEvenDistribution(links, max, Len(secs)), <<>>)
         IN IF second.raised
            THEN [pc |-> "raised", exc |-> "re.error", result |-> <<>>]
            ELSE [pc |-> "done", exc |-> "", result |-> JoinLines(second.sections)]

\* lines 191-292: how add_internal_links ends for the catalog us and the
\* arguments content, max_arg, wpl when nothing else runs on the engine
CallOutcome(us, content, max_arg, wpl) ==
    IF GetPrioritizedUrls(us) = <<>>
    THEN [pc |-> "done", exc |-> "", result |-> content]
    ELSE LET max == IF max_arg.some THEN max_arg.v
                    ELSE ComputeMaxLinks(Len(Split(StripTags(content))), wpl)
             secs == SplitContentIntoSections(content)
         IN OutcomeFrom(secs,
                SortByScore(FirstPass(secs, 1, <<>>, GetPrioritizedUrls(us), max)),
                max)

-----------------------------------------------------------------------------
(* The construction InternalLinker(sitemap_urls), for URL strings that     *)
(* exercise _determine_url_type.                                           *)

\* the words a path segment of such a URL is drawn from
SegmentWords ==
    {"category", "Category", "product", "Product", "blog", "Blog", "Shop",
     "p", "seeds"}

\* the paths of at most n segments, "/" word "/" word ...
RECURSIVE PathsOf(_)
PathsOf(n) ==
    IF n = 0 THEN {<<>>}
    ELSE LET shorter == PathsOf(n - 1) IN
         shorter \cup {path \o <<X("/"), W(w)>> : path \in shorter, w \in SegmentWords}

\* https://x.com, a path, and a closing "/" or none
UrlInputs ==
    {Https(XCom) \o path \o closing :
        path \in PathsOf(MaxSegments), closing \in {<<>>, <<X("/")>>}}

\* before __init__ runs: no catalog, no call
InitConstruct ==
    /\ \E url \in UrlInputs : sitemap_urls = <<url>>
    /\ urls = <<>>
    /\ stats = NoStats
    /\ other = <<>>
    /\ content_html = <<>>
    /\ max_links_arg = [some |-> FALSE, v |-> 0]
    /\ words_per_link = DefaultWordsPerLink
    /\ pc = "construct"
    /\ NoLocals

\* lines 94-95: __init__ fills self.urls
Construct ==
    /\ pc = "construct"
    /\ urls' = CategorizeUrls(sitemap_urls)
    /\ pc' = "constructed"
    /\ UNCHANGED <<env, content_html, max_links_arg, words_per_link, word_count,
                   max_links, sections, potential_links, selected_links, idx,
                   links_added, link_distribution, used_urls, modified_sections,
                   result, exc>>

NextConstruct == Construct

SpecConstruct == InitConstruct /\ [][NextConstruct]_vars

-----------------------------------------------------------------------------
(* Several calls on one engine: add_internal_links one call after the      *)
(* other or two calls interleaved, and get_statistics.  The variables      *)
(* content_html .. exc are the frame of the call that is running; the      *)
(* frame of a call that is not running is kept in other.  A call that      *)
(* begins finds in its locals what the last user of the variables left: a  *)
(* Python local is unbound until assigned, so the call must assign every   *)
(* local before it reads it.                                               *)

\* the frame of the running call
Frame ==
    [content_html |-> content_html, max_links_arg |-> max_links_arg,
     words_per_link |-> words_per_link, pc |-> pc, word_count |-> word_count,
     max_links |-> max_links, sections |-> sections,
     potential_links |-> potential_links, selected_links |-> selected_links,
     idx |-> idx, links_added |-> links_added,
     link_distribution |-> link_distribution, used_urls |-> used_urls,
     modified_sections |-> modified_sections, result |-> result, exc |-> exc]

\* the frame f becomes the frame of the running call
Resume(f) ==
    /\ content_html' = f.content_html
    /\ max_links_arg' = f.max_links_arg
    /\ words_per_link' = f.words_per_link
    /\ pc' = f.pc
    /\ word_count' = f.word_count
    /\ max_links' = f.max_links
    /\ sections' = f.sections
    /\ potential_links' = f.potential_links
    /\ selected_links' = f.selected_links
    /\ idx' = f.idx
    /\ links_added' = f.links_added
    /\ link_distribution' = f.link_distribution
    /\ used_urls' = f.used_urls
    /\ modified_sections' = f.modified_sections
    /\ result' = f.result
    /\ exc' = f.exc

\* the sitemaps, articles and arguments of the calls on one engine
SitemapsOfCalls == { <<>>, <<4, 1>> }

ArticlesOfCalls == {
    \* <p>uv blog</p>
    <<T("<p>"), W("uv"), SP, W("blog"), T("</p>")>>,
    \* <p><a href="https://x.com/category/seeds-kit">kit</a> seeds</p><h2>Seeds</h2>
    <<T("<p>"), AOpen(5), W("kit"), AClose, SP, W("seeds"), T("</p>"),
      T("<h2>"), W("Seeds"), T("</h2>")>> }

ArgsOfCalls ==
    {[max_links |-> [some |-> TRUE, v |-> n], words_per_link |-> DefaultWordsPerLink] :
        n \in 1..2}
    \cup {[max_links |-> [some |-> FALSE, v |-> 0], words_per_link |-> <<2, 3>>]}

\* lines 697-717
Statistics(us) ==
    LET types == {us[k].url_type : k \in 1..Len(us)}
        samples(t) == [k \in 1..Len(SelectSeq(us, LAMBDA e : e.url_type = t)) |->
                         [url |-> SelectSeq(us, LAMBDA e : e.url_type = t)[k].url,
                          title |-> SelectSeq(us, LAMBDA e : e.url_type = t)[k].title]]
    IN [total_urls |-> Len(us),
        by_type |-> [t \in types |-> Cardinality({k \in 1..Len(us) : us[k].url_type = t})],
        sample_urls |-> [t \in types |-> SubSeq(samples(t), 1, Min(3, Len(samples(t))))]]

InitCalls ==
    /\ \E sitemap \in SitemapsOfCalls : sitemap_urls = SitemapUrls(sitemap)
    /\ urls = CategorizeUrls(sitemap_urls)
    /\ stats = NoStats
    /\ other = <<>>
    /\ content_html \in ArticlesOfCalls
    /\ \E a \in ArgsOfCalls :
          /\ max_links_arg = a.max_links
          /\ words_per_link = a.words_per_link
    /\ pc = "start"
    /\ NoLocals

\* get_statistics grouping the entries by sorting self.urls in place
GetStatisticsSortsCatalog ==
    /\ urls' = GetPrioritizedUrls(urls)
    /\ stats' = Statistics(urls')
    /\ UNCHANGED <<sitemap_urls, other, content_html, max_links_arg,
                   words_per_link, pc, word_count, max_links, sections,
                   potential_links, selected_links, idx, links_added,
                   link_distribution, used_urls, modified_sections, result, exc>>

\* InternalLinker.get_statistics
GetStatistics ==
    /\ stats' = Statistics(urls)
    /\ UNCHANGED <<sitemap_urls, urls, other, content_html, max_links_arg,
                   words_per_link, pc, word_count, max_links, sections,
                   potential_links, selected_links, idx, links_added,
                   link_distribution, used_urls, modified_sections, result, exc>>

\* the entry of a call of add_internal_links: its arguments are bound
Enter ==
    /\ content_html' \in ArticlesOfCalls
    /\ \E a \in ArgsOfCalls :
          /\ max_links_arg' = a.max_links
          /\ words_per_link' = a.words_per_link
    /\ pc' = "start"
    /\ exc' = ""
    /\ UNCHANGED <<word_count, max_links, sections, potential_links,
                   selected_links, idx, links_added, link_distribution,
                   used_urls, modified_sections, result>>

\* the running call has ended and the next call on the engine begins
CallAgain ==
    /\ pc \in {"done", "raised"}
    /\ other = <<>>
    /\ Enter
    /\ UNCHANGED <<sitemap_urls, urls, stats, other>>

\* a second call begins while the running call is in progress
CallMeanwhile ==
    /\ pc \notin {"done", "raised"}
    /\ other = <<>>
    /\ other' = <<Frame>>
    /\ Enter
    /\ UNCHANGED <<sitemap_urls, urls, stats>>

\* the running call is suspended and the other call goes on
Switch ==
    /\ other # <<>>
    /\ other' = <<Frame>>
    /\ Resume(other[1])
    /\ UNCHANGED <<sitemap_urls, urls, stats>>

NextCalls ==
    \/ Next
    \/ GetStatistics
    \/ CallAgain
    \/ CallMeanwhile
    \/ Switch

SpecCalls == InitCalls /\ [][NextCalls]_vars

-----------------------------------------------------------------------------
(* Properties.                                                             *)

\* the number of anchor start tags of a string
AnchorCount(html) == Cardinality({k \in 1..Len(html) : html[k].s = "<a>"})

\* the string without its anchor tags
StripAnchors(html) == SelectSeq(html, LAMBDA x : x.s \notin {"<a>", "</a>"})

\* the number of anchor start tags that lie inside an h1..h6 element
AnchorsInHeadings(html) ==
    Cardinality({k \in 1..Len(html) :
        /\ html[k].s = "<a>"
        /\ \E i \in 1..(k - 1) :
              /\ html[i] \in HeadingOpen
              /\ \A j \in (i + 1)..(k - 1) : html[j] \notin HeadingClose})

\* the markup of the section a selected link points to
SectionOfLink(link) == sections[link.section_index + 1].content

\* the anchor text the injector finds for a selected link
AnchorTextOfLink(link) ==
    FindBestAnchorText(StripTags(SectionOfLink(link)), link.url)

\* the selected link of the section the second pass is at
CurrentLink == SelectedLinkFor(selected_links, idx - 1)

\* the second pass was left by re.error while linking section idx
RaisedWhileLinking == pc = "raised" /\ exc = "re.error"

\* C1: no two segments selected for linking carry the same URL entry.
C1_NoTwoSelectedShareUrl ==
    \A a, b \in 1..Len(selected_links) :
        a # b => selected_links[a].url.url # selected_links[b].url.url

\* C2: the number of links selected, counted and injected by one call is at
\* most max_links.
C2_BudgetRespected ==
    /\ Len(selected_links) <= max_links
    /\ links_added <= max_links
    /\ pc = "done" => AnchorCount(result) - AnchorCount(content_html) <= max_links

\* C2 witness: a call returned that had more candidates than its budget of
\* at least one link, and the selection filled the budget
C2_Witness ==
    /\ pc = "done"
    /\ max_links >= 1
    /\ Len(potential_links) > max_links
    /\ Len(selected_links) = max_links

\* C3: the output holds no anchor inside an h1..h6 element that the input
\* did not hold, wherever the heading sits.
C3_NoAnchorInHeading ==
    pc = "done" => AnchorsInHeadings(result) = AnchorsInHeadings(content_html)

\* C3 witness: a call returned after the injector was applied to a section
\* that holds a heading element inside another block
C3_Witness ==
    /\ pc = "done"
    /\ \E k \in 1..Len(selected_links) :
          \E j \in 1..Len(SectionOfLink(selected_links[k])) :
              SectionOfLink(selected_links[k])[j] \in HeadingOpen

\* C4: the output without its anchor tags is the input without its anchor
\* tags, byte for byte.
C4_StructurePreserved ==
    pc = "done" => StripAnchors(result) = StripAnchors(content_html)

\* C5: the call never raises when the anchor text of a selected candidate
\* has no eligible occurrence in the segment markup.
C5_NoRaiseWithoutEligibleOccurrence ==
    ~ /\ RaisedWhileLinking
      /\ AnchorTextOfLink(CurrentLink) # None
      /\ \A k \in 1..Len(SectionOfLink(CurrentLink)) :
            ~PatternMatchesAt(AnchorTextOfLink(CurrentLink),
                              SectionOfLink(CurrentLink), k)

IsOneParagraph(html) ==
    /\ Len(html) >= 2
    /\ html[1] = T("<p>")
    /\ html[Len(html)] = T("</p>")
    /\ \A k \in 2..(Len(html) - 1) : html[k] \notin {T("<p>"), T("</p>")}

\* C7: with a single category URL whose title is one word, an article of
\* one paragraph that holds the word and a budget of at least one link, the
\* call returns with exactly one link injected, counted as a category link.
C7_OneCategoryLink ==
    ( /\ pc \in {"done", "raised"}
      /\ Len(urls) = 1
      /\ urls[1].url_type = "category"
      /\ Len(Split(urls[1].title)) = 1
      /\ IsOneParagraph(content_html)
      /\ Occurs(Lower(urls[1].title), Lower(StripTags(content_html)))
      /\ max_links >= 1 )
    => /\ pc = "done"
       /\ links_added = 1
       /\ link_distribution["category"] = 1
       /\ AnchorCount(result) = AnchorCount(content_html) + 1

\* the number of places where a word starts in a string
WordStarts(text) ==
    Cardinality({k \in 1..Len(text) :
        /\ ~IsSpace(text[k])
        /\ k = 1 \/ IsSpace(text[k - 1])})

\* C8: without an explicit max_links the budget is the floor of W divided
\* by the mean of words_per_link, W being the number of words of the whole
\* article without its tags (900 words and (300, 400) give 2); an explicit
\* max_links is the budget whatever the word count.
C8_BudgetFormula ==
    /\ ComputeMaxLinks(900, <<300, 400>>) = 2
    /\ pc # "start" =>
         /\ word_count = WordStarts(StripTags(content_html))
         /\ IF max_links_arg.some
            THEN max_links = max_links_arg.v
            ELSE /\ max_links * (words_per_link[1] + words_per_link[2])
                      <= 2 * word_count
                 /\ 2 * word_count
                      < (max_links + 1) * (words_per_link[1] + words_per_link[2])

\* C8 witness: a budget of two links computed from the word count
C8_Witness ==
    /\ pc = "done"
    /\ ~max_links_arg.some
    /\ max_links = 2

\* an occurrence of the anchor text at k lies inside an anchor element
InsideAnchorElement(anchor_text, html, k) ==
    /\ OccursAt(Lower(anchor_text), Lower(html), k)
    /\ \E i \in 1..(k - 1) :
          /\ html[i].s = "<a>"
          /\ \A j \in (i + 1)..(k - 1) : html[j] # AClose

LinkedSoFar ==
    {k \in 1..Len(selected_links) :
        /\ pc \in {"second_pass", "done"}
        /\ selected_links[k].section_index + 1 < idx
        /\ k = CHOOSE j \in 1..Len(selected_links) :
                  /\ selected_links[j].section_index = selected_links[k].section_index
                  /\ \A i \in 1..(j - 1) :
                        selected_links[i].section_index # selected_links[j].section_index}

\* C10: when the URL of the entry occurs in the markup of the section, the
\* injector returns the markup unchanged.
C10_FailsClosed ==
    /\ \A k \in LinkedSoFar :
          In(selected_links[k].url.url, SectionOfLink(selected_links[k]))
          => modified_sections[selected_links[k].section_index + 1]
                = SectionOfLink(selected_links[k])
    /\ RaisedWhileLinking => ~In(CurrentLink.url.url, SectionOfLink(CurrentLink))

\* C10 witness: a call returned after the injector was given a section that
\* holds the URL of the entry and a text the entry has an anchor text for
C10_Witness ==
    /\ pc = "done"
    /\ \E k \in LinkedSoFar :
          /\ In(selected_links[k].url.url, SectionOfLink(selected_links[k]))
          /\ AnchorTextOfLink(selected_links[k]) # None

\* the injector is given the section of a selected link, the URL is not in
\* the markup and the anchor text has an occurrence the pattern of line 509
\* describes: whole words, outside any anchor element
HasEligibleOccurrence(link) ==
    /\ ~In(link.url.url, SectionOfLink(link))
    /\ AnchorTextOfLink(link) # None
    /\ \E k \in 1..Len(SectionOfLink(link)) :
          PatternMatchesAt(AnchorTextOfLink(link), SectionOfLink(link), k)

\* the markup with the occurrence of the anchor text at k wrapped in an
\* anchor element for url, everything else as it was
WrappedAt(html, anchor_text, url, k) ==
    SubSeq(html, 1, k - 1)
    \o <<AOpen(UrlIndex(url))>> \o SubSeq(html, k, k + Len(anchor_text) - 1)
    \o <<AClose>> \o SubSeq(html, k + Len(anchor_text), Len(html))

\* the markup of the section of a link with the first eligible occurrence
\* of its anchor text wrapped
FirstEligibleWrapped(link) ==
    WrappedAt(SectionOfLink(link), AnchorTextOfLink(link), link.url.url,
        CHOOSE k \in 1..Len(SectionOfLink(link)) :
            /\ PatternMatchesAt(AnchorTextOfLink(link), SectionOfLink(link), k)
            /\ \A j \in 1..(k - 1) :
                  ~PatternMatchesAt(AnchorTextOfLink(link), SectionOfLink(link), j))

HeadingSections == {k \in 1..Len(sections) : sections[k].type = "heading"}

\* C12: a segment classified as heading never becomes a candidate, is never
\* selected and never passed to the injector, and its markup, taken
\* unchanged from the input, appears unchanged in the output.
C12_HeadingNeverLinked ==
    /\ \A k \in 1..Len(potential_links) :
          potential_links[k].section_index + 1 \notin HeadingSections
    /\ \A k \in 1..Len(selected_links) :
          selected_links[k].section_index + 1 \notin HeadingSections
    /\ \A k \in HeadingSections :
          /\ Occurs(sections[k].content, content_html)
          /\ pc \in {"second_pass", "done"} /\ k <= Len(modified_sections)
             => modified_sections[k] = sections[k].content
          /\ pc = "done" => Occurs(sections[k].content, result)

\* C12 witness: a call with a budget of at least one link returned, for an
\* article with a heading whose text is the title of a catalog entry and
\* with another segment that is not a heading
C12_Witness ==
    /\ pc = "done"
    /\ max_links >= 1
    /\ HeadingSections # {}
    /\ \E k \in 1..Len(sections) : k \notin HeadingSections
    /\ \E k \in HeadingSections : \E e \in 1..Len(urls) :
          Lower(StripTags(sections[k].content)) = Lower(urls[e].title)

\* C13: of two catalog entries with identical titles and different URLs at
\* most one is selected in one article.
C13_OneOfIdenticalTitles ==
    \A a, b \in 1..Len(selected_links) :
        selected_links[a].url.title = selected_links[b].url.title
        => selected_links[a].url.url = selected_links[b].url.url

\* the lower-cased words of a URL that stand between two "/"
ClosedSegments(url) ==
    {LowerWord(url[k + 1].s) :
        k \in {j \in 1..(Len(url) - 2) :
                  url[j] = X("/") /\ url[j + 1].t = "w" /\ url[j + 2] = X("/")}}

\* the category of a URL by the priority of the groups, from the path
\* segments of the URL that are closed by "/"
CategoryBySegments(url) ==
    IF ClosedSegments(url) \cap {"category", "cat", "categories", "dasteh", "shop"} # {}
    THEN "category"
    ELSE IF ClosedSegments(url) \cap {"product", "mahsool", "p"} # {}
    THEN "product"
    ELSE IF ClosedSegments(url) \cap {"blog", "post", "article", "maghaleh", "weblog"} # {}
    THEN "blog"
    ELSE "other"

\* C14: the category of a URL is category if a category pattern occurs in
\* the lower-cased URL, else product if a product pattern occurs, else blog
\* if a blog pattern occurs, else other; a URL and its lower-cased spelling
\* get the same category.
C14_CategorizePriority ==
    pc = "constructed" =>
        \A k \in 1..Len(sitemap_urls) :
            /\ urls[k].url_type = CategoryBySegments(sitemap_urls[k])
            /\ urls[k].url_type = DetermineUrlType(Lower(sitemap_urls[k]))

\* C14 witness: an engine was constructed from a URL with an upper-case
\* letter that holds a blog pattern and a product pattern and no category
\* pattern
C14_Witness ==
    /\ pc = "constructed"
    /\ sitemap_urls[1] # Lower(sitemap_urls[1])
    /\ {"product", "blog"} \subseteq ClosedSegments(sitemap_urls[1])
    /\ "category" \notin ClosedSegments(sitemap_urls[1])
    /\ urls[1].url_type = "product"

\* the frames of the calls, running or not
Frames == {Frame} \cup {other[k] : k \in 1..Len(other)}

\* the frames of the calls that have ended
FinishedFrames == {f \in Frames : f.pc \in {"done", "raised"}}

\* C15: the catalog stays as __init__ built it from the sitemap URLs,
\* entries, order, url, category, title and keywords, through every
\* sequence of add_internal_links and get_statistics calls.
C15_CatalogImmutable == urls = CategorizeUrls(sitemap_urls)

\* C15 witness: two calls of add_internal_links have ended and
\* get_statistics was called on an engine with entries of two categories
C15_Witness ==
    /\ Cardinality(FinishedFrames) = 2
    /\ stats # NoStats
    /\ Len(urls) = 2
    /\ urls[1].url_type # urls[2].url_type

\* how a call ended: returned a string, or raised
Outcome(f) ==
    [pc |-> f.pc, exc |-> f.exc,
     result |-> IF f.pc = "done" THEN f.result ELSE <<>>]

\* C16: every call on an engine, after other calls or interleaved with
\* another call, ends as it would if it were the only call on that engine.
C16_CallsDoNotInterfere ==
    \A f \in FinishedFrames :
        Outcome(f) = CallOutcome(urls, f.content_html, f.max_links_arg,
                                 f.words_per_link)

\* C16 witness: two calls on different articles that were in progress at
\* the same time have ended, each with a candidate of its own
C16_Witness ==
    /\ other # <<>>
    /\ Cardinality(FinishedFrames) = 2
    /\ other[1].content_html # content_html
    /\ other[1].potential_links # <<>>
    /\ potential_links # <<>>
    /\ other[1].potential_links # potential_links

\* the selection of the call has returned
SelectionReturned == pc \in {"second_pass", "done"} \/ RaisedWhileLinking

\* C17: for max_links >= 1 the selection returns min(max_links, number of
\* candidates) candidates.
C17_SelectsMinOfBudgetAndCandidates ==
    max_links >= 1 =>
        /\ ~(pc = "raised" /\ exc = "ValueError")
        /\ SelectionReturned
           => Len(selected_links) = Min(max_links, Len(potential_links))

\* the candidate closest to the target position num / den among those whose
\* section is not picked, the first in descending score order when several
\* are equally close: its position in sorted_links, 0 if there is none
ClosestToTarget(sorted_links, picked_indices, num, den) ==
    LET free == {k \in 1..Len(sorted_links) :
                    sorted_links[k].section_index \notin picked_indices}
        dist(k) == Abs(sorted_links[k].section_index * den - num)
    IN IF free = {} THEN 0
       ELSE CHOOSE k \in free :
                /\ \A j \in free : dist(k) <= dist(j)
                /\ \A j \in free : j < k => dist(k) < dist(j)

\* the walk over the target positions k * total / max, k = 0, 1, ..., that
\* lie before total
RECURSIVE EvenWalk(_, _, _, _, _)
EvenWalk(sorted_links, max, total, k, picked) ==
    IF k * total >= total * max THEN picked
    ELSE LET best == ClosestToTarget(sorted_links, SectionIndices(picked),
                                     k * total, max)
         IN EvenWalk(sorted_links, max, total, k + 1,
                     IF best # 0 THEN Append(picked, sorted_links[best])
                     ELSE picked)

\* C18: the selection picks, at each of the target positions 0, spacing,
\* 2 * spacing, ... with spacing = total_segment_count / max_links, the
\* candidate not yet picked whose segment index is closest to the position,
\* the higher-scored one when two are equally close.
C18_WalksEvenTargets ==
    SelectionReturned /\ max_links >= 1 /\ sections # <<>>
    => selected_links = EvenWalk(potential_links, max_links, Len(sections), 0, <<>>)

-----------------------------------------------------------------------------
(* The segmenter alone: _split_content_into_sections(html) on markups      *)
(* made of a few tags, words and spaces, well formed or not.               *)

Pieces == {T("<h2>"), T("</h2>"), T("<p>"), T("</p>"), W("Seeds"), SP}

RECURSIVE MarkupsOf(_)
MarkupsOf(n) ==
    IF n = 0 THEN {<<>>}
    ELSE LET shorter == MarkupsOf(n - 1) IN
         shorter \cup {Append(m, x) : m \in shorter, x \in Pieces}

InitSplit ==
    /\ sitemap_urls = <<>>
    /\ urls = <<>>
    /\ stats = NoStats
    /\ other = <<>>
    /\ content_html \in MarkupsOf(MaxPieces)
    /\ max_links_arg = [some |-> FALSE, v |-> 0]
    /\ words_per_link = DefaultWordsPerLink
    /\ pc = "split"
    /\ NoLocals

\* sections = self._split_content_into_sections(content_html)
SplitOnly ==
    /\ pc = "split"
    /\ sections' = SplitContentIntoSections(content_html)
    /\ pc' = "split_done"
    /\ UNCHANGED <<env, urls, content_html, max_links_arg, words_per_link,
                   word_count, max_links, potential_links, selected_links, idx,
                   links_added, link_distribution, used_urls, modified_sections,
                   result, exc>>

NextSplit == SplitOnly

SpecSplit == InitSplit /\ [][NextSplit]_vars

-----------------------------------------------------------------------------
(* Calls that exercise the scoring: catalogs whose entries differ in type  *)
(* and relevance, articles whose paragraphs match them by title, by        *)
(* keyword or only through a semantic group.                               *)

SitemapsOfScores == { <<>>, <<8>>, <<7>>, <<4, 7>> }

FragmentsOfScores == {
    \* <p>khak</p>
    <<T("<p>"), W("khak"), T("</p>")>>,
    \* <p>kood</p>  (the Persian word for fertilizer, transliterated)
    <<T("<p>"), W("kood"), T("</p>")>>,
    \* <p>We sell Seeds</p>
    <<T("<p>"), W("We"), SP, W("sell"), SP, W("Seeds"), T("</p>")>>,
    \* <p>uv blog</p>
    <<T("<p>"), W("uv"), SP, W("blog"), T("</p>")>>,
    \* <h2>Seeds</h2>
    <<T("<h2>"), W("Seeds"), T("</h2>")>>,
    \* <p>Seeds uv</p>
    <<T("<p>"), W("Seeds"), SP, W("uv"), T("</p>")>> }

RECURSIVE ArticlesOfScores(_)
ArticlesOfScores(n) ==
    IF n = 0 THEN {<<>>}
    ELSE LET shorter == ArticlesOfScores(n - 1) IN
         shorter \cup {a \o f : a \in shorter, f \in FragmentsOfScores}

InitScores ==
    /\ \E sitemap \in SitemapsOfScores : sitemap_urls = SitemapUrls(sitemap)
    /\ urls = CategorizeUrls(sitemap_urls)
    /\ stats = NoStats
    /\ other = <<>>
    /\ content_html \in ArticlesOfScores(MaxBlocks)
    /\ \E a \in CallArgs :
          /\ max_links_arg = a.max_links
          /\ words_per_link = a.words_per_link
    /\ pc = "start"
    /\ NoLocals

SpecScores == InitScores /\ [][Next]_vars

-----------------------------------------------------------------------------

\* the adjusted scores that _find_best_url_for_section gives the catalog
\* entries for a section, with the candidates found so far
AdjustedScoresOf(section) ==
    {AdjustedScore(Lower(StripTags(section.content)), urls[k],
                   link_distribution, max_links - Len(potential_links)) :
        k \in 1..Len(urls)}

\* C19: a linkable segment contributes a candidate only if its best adjusted
\* score is strictly greater than 0.15; with a best adjusted score of 0.15 or
\* less, 0.15 itself included, the list of candidates stays as it is.
C19_ThresholdStrict ==
    [][pc = "first_pass" /\ idx' = idx + 1 /\ sections[idx].type # "heading"
       => IF \E a \in AdjustedScoresOf(sections[idx]) : a > 1500
          THEN /\ Len(potential_links') = Len(potential_links) + 1
               /\ potential_links'[Len(potential_links')].section_index = idx - 1
          ELSE potential_links' = potential_links]_vars

\* the first pass has just left a linkable segment whose best adjusted score
\* is exactly 0.15 without a candidate
C19_Witness ==
    /\ pc = "first_pass"
    /\ idx > 1
    /\ sections[idx - 1].type # "heading"
    /\ idx - 2 \notin SectionIndices(potential_links)
    /\ 1500 \in AdjustedScoresOf(sections[idx - 1])

\* the decimal number a coded float stands for, in ten-thousandths
Decimal(code) == ((code + 5) \div 10) * 10

\* four times the adjusted score of the claim for an entry and a section,
\* in exact arithmetic: relevance * 1.5 for a category, * 0.5 when the count
\* of the entry's type exceeds remaining_slots / 3
FourTimesAdjusted(section, url_item, links) ==
    Decimal(CalculateMatchScore(Lower(StripTags(section.content)), url_item))
    * (IF url_item.url_type = "category" THEN 3 ELSE 2)
    * (IF 3 * link_distribution[url_item.url_type] > max_links - Len(links)
       THEN 1 ELSE 2)

\* C20: the entry that becomes the candidate of a segment has the highest
\* adjusted score of the catalog, the adjusted score being the relevance
\* times 1.5 for a category entry and times 0.5 when the running count of
\* the entry's type exceeds remaining_slots / 3.
C20_HighestAdjustedIsCandidate ==
    [][/\ pc = "first_pass"
       /\ idx' = idx + 1
       /\ Len(potential_links') = Len(potential_links) + 1
       => \A k \in 1..Len(urls) :
             /\ FourTimesAdjusted(sections[idx],
                                  potential_links'[Len(potential_links')].url,
                                  potential_links)
                >= FourTimesAdjusted(sections[idx], urls[k], potential_links)
             /\ 4 * Decimal(AdjustedScore(
                                Lower(StripTags(sections[idx].content)), urls[k],
                                link_distribution,
                                max_links - Len(potential_links)))
                = FourTimesAdjusted(sections[idx], urls[k], potential_links)]_vars

\* the first pass has just given a segment a category entry under the
\* penalty, while a catalog entry of another type is more relevant to the
\* segment
C20_Witness ==
    /\ pc = "first_pass"
    /\ idx > 1
    /\ potential_links # <<>>
    /\ LET c == potential_links[Len(potential_links)] IN
       /\ c.section_index = idx - 2
       /\ c.url.url_type = "category"
       /\ max_links - (Len(potential_links) - 1) < 0
       /\ \E k \in 1..Len(urls) :
             /\ urls[k].url_type # "category"
             /\ CalculateMatchScore(Lower(StripTags(c.content)), urls[k])
                > CalculateMatchScore(Lower(StripTags(c.content)), c.url)

\* the number of positions of a list whose element passes the test
CountIn(list, Test(_)) == Cardinality({k \in 1..Len(list) : Test(list[k])})

\* the bonuses of the score of an entry for a text, in exact arithmetic and
\* without the bonus for title words in the URL:
\* 0.8 for the title, 0.3 for each title word longer than 2, 0.4 for each
\* keyword longer than 2 (0.2 when only a token of it is found), 0.3 for a
\* shared semantic group
BonusesButPath(text, url_item) ==
    LET chars == Chars(text)
        found(word) == Occurs(Lower(word), chars)
        long(word) == StrLen(word) > 2
        whole(keyword) == long(keyword) /\ found(keyword)
        partial(keyword) ==
            /\ long(keyword)
            /\ ~found(keyword)
            /\ CountIn(Split(keyword), LAMBDA w : long(w) /\ found(w)) > 0
    IN (IF found(url_item.title) THEN 8000 ELSE 0)
       + 3000 * CountIn(Split(url_item.title), LAMBDA w : long(w) /\ found(w))
       + 4000 * CountIn(url_item.keywords, whole)
       + 2000 * CountIn(url_item.keywords, partial)
       + (IF HasSemanticSimilarity(text, url_item) THEN 3000 ELSE 0)

\* the number of title words that occur both in the URL and in the text
PathWords(text, url_item) ==
    CountIn(Split(url_item.title),
            LAMBDA w : Occurs(Lower(w), Lower(url_item.url))
                       /\ Occurs(Lower(w), Chars(text)))

AnchorCalls ==
    {selected_links[k] : k \in {j \in LinkedSoFar :
        ~In(selected_links[j].url.url, SectionOfLink(selected_links[j]))}}
    \cup (IF RaisedWhileLinking THEN {CurrentLink} ELSE {})

\* the result of the first of the six strategies that succeeds, the fuzzy
\* window being the sixth
FirstOfSixStrategies(text, url_item) ==
    LET title_words == Split(url_item.title) IN
    FirstOf(AnchorExactTitle(text, url_item),
    FirstOf(AnchorFirstWords(text, title_words, 2),
    FirstOf(AnchorFirstWords(text, title_words, 3),
    FirstOf(FindSemanticAnchorText(text, title_words),
    FirstOf(AnchorKeyword(text, SortByLen(url_item.keywords)),
    FirstOf(AnchorFirstWords(text, title_words, 4),
    FirstOf(AnchorFirstWords(text, title_words, 5),
            BestFuzzyWindow(text, url_item.title))))))))

\* C22: the anchor selector returns the result of the first strategy that
\* succeeds, in the order exact title, first 2 and 3 title words, semantic
\* word, longest keyword, first 4 and 5 title words, fuzzy window; it returns
\* none only when all six fail.
C22_FirstSuccessfulStrategy ==
    \A link \in AnchorCalls :
        AnchorTextOfLink(link)
        = FirstOfSixStrategies(StripTags(SectionOfLink(link)), link.url)

\* strategies 1 to 5 of the anchor selector all fail
FirstFiveFail(text, url_item) ==
    LET title_words == Split(url_item.title) IN
    /\ AnchorExactTitle(text, url_item) = None
    /\ \A n \in 2..5 : AnchorFirstWords(text, title_words, n) = None
    /\ FindSemanticAnchorText(text, title_words) = None
    /\ AnchorKeyword(text, SortByLen(url_item.keywords)) = None

\* C23: when strategies 1 to 5 fail and some window of 1 to 5 words of the
\* text has a similarity ratio to the title above 0.6, the anchor selector
\* returns the window with the best ratio, the first one on ties, not none.
C23_FuzzyWindowReturned ==
    \A link \in AnchorCalls :
        LET text == StripTags(SectionOfLink(link)) IN
        FirstFiveFail(text, link.url)
        /\ BestFuzzyWindow(text, link.url.title) # None
        => /\ AnchorTextOfLink(link) # None
           /\ AnchorTextOfLink(link) = BestFuzzyWindow(text, link.url.title)

\* the second pass is at a selected section for whose link the anchor
\* selector returns None
AtLinkWithoutAnchor ==
    /\ pc = "second_pass"
    /\ idx <= Len(sections)
    /\ (idx - 1) \in SectionIndices(selected_links)
    /\ ~In(CurrentLink.url.url, sections[idx].content)
    /\ AnchorTextOfLink(CurrentLink) = None

\* the selected links for which the anchor selector returned None
LinksWithoutAnchor ==
    {link \in AnchorCalls : AnchorTextOfLink(link) = None}

\* C24: when the anchor selector returns None for a selected candidate, the
\* segment is emitted as it was, the list of selected candidates stays as it
\* is (no other URL, no other candidate takes the slot), nothing is counted,
\* and the links injected are fewer than the candidates selected.
C24_AnchorNotFoundDropsSlot ==
    /\ [][AtLinkWithoutAnchor
          => /\ modified_sections' = Append(modified_sections, sections[idx].content)
             /\ selected_links' = selected_links
             /\ potential_links' = potential_links
             /\ links_added' = links_added
             /\ idx' = idx + 1
             /\ pc' = "second_pass"]_vars
    /\ [](LinksWithoutAnchor # {}
          => /\ links_added < Len(selected_links)
             /\ \A link \in LinksWithoutAnchor :
                   pc \in {"second_pass", "done"}
                   => modified_sections[link.section_index + 1] = link.content
             /\ pc = "done"
                => AnchorCount(result) - AnchorCount(content_html)
                   < Len(selected_links))

\* a call returned after the anchor selector had returned None for a
\* selected candidate
C24_Witness ==
    /\ pc = "done"
    /\ LinksWithoutAnchor # {}

\* the sum of the per-category counts
CountedByType ==
    link_distribution["category"] + link_distribution["product"]
    + link_distribution["blog"] + link_distribution["other"]

\* the sections emitted so far whose markup differs from the original
ChangedSections ==
    {k \in 1..Len(modified_sections) : modified_sections[k] # sections[k].content}

\* C25: in the second pass links_added, the per-category count and used_urls
\* are updated for a segment exactly when the markup emitted for it differs
\* from its original markup; links_added equals the sum of the per-category
\* counts and the number of segments whose markup changed.
C25_NonInjectionNotCounted ==
    /\ [][pc = "second_pass" /\ idx' = idx + 1
          => LET changed == modified_sections'[idx] # sections[idx].content IN
             /\ links_added' = links_added + (IF changed THEN 1 ELSE 0)
             /\ changed <=> link_distribution' # link_distribution
             /\ changed <=> used_urls' # used_urls]_vars
    /\ [](/\ links_added = CountedByType
          /\ pc \in {"second_pass", "done", "raised"}
             => links_added = Cardinality(ChangedSections))

\* a call returned after the injector had returned the markup of a selected
\* segment as it was
C25_Witness ==
    /\ pc = "done"
    /\ \E k \in LinkedSoFar :
          modified_sections[selected_links[k].section_index + 1]
          = SectionOfLink(selected_links[k])

\* the segment of the claim for a part of the split: a recognized block (an
\* even position of the split) is a heading when it is an h1..h6 block and
\* linkable otherwise; a fragment outside the blocks is wrapped as a
\* paragraph
RECURSIVE SegmentsOfParts(_, _)
SegmentsOfParts(parts, k) ==
    IF k > Len(parts) THEN <<>>
    ELSE LET part == Strip(parts[k])
             segment ==
                 IF k % 2 = 0
                 THEN [type |-> IF part[1] \in HeadingOpen THEN "heading"
                                ELSE "paragraph",
                       content |-> part]
                 ELSE [type |-> "paragraph",
                       content |-> <<T("<p>")>> \o part \o <<T("</p>")>>]
         IN (IF part = <<>> THEN <<>> ELSE <<segment>>)
            \o SegmentsOfParts(parts, k + 1)

\* C26: the segmenter returns the blocks in their order, drops the empty
\* and whitespace-only fragments, tags a block heading exactly when it is an
\* h1..h6 block, and wraps every other non-empty fragment as a paragraph,
\* for malformed markup too.
C26_SegmenterWrapsFragments ==
    pc = "split_done" => sections = SegmentsOfParts(ReSplit(content_html), 1)

\* C27: every result of the anchor selector other than None is a contiguous
\* substring of the tag-stripped text it was given, in the letter case of
\* that text.
C27_AnchorIsSubstringOfText ==
    \A link \in AnchorCalls :
        AnchorTextOfLink(link) # None
        => Occurs(AnchorTextOfLink(link), StripTags(SectionOfLink(link)))

\* the anchor selector returned a text whose letter case is that of the
\* segment and not that of the title and keywords of the entry
C27_Witness ==
    /\ RaisedWhileLinking
    /\ AnchorTextOfLink(CurrentLink) # None
    /\ AnchorTextOfLink(CurrentLink) # Lower(AnchorTextOfLink(CurrentLink))
    /\ CurrentLink.url.title = Lower(CurrentLink.url.title)
    /\ CurrentLink.url.keywords = Lower2(CurrentLink.url.keywords)

\* C28: with a non-empty catalog and max_links >= 1 the call does not end
\* by an exception, also when max_links exceeds the number of segments and
\* a candidate exists, and the selection returns at most one candidate per
\* segment.
C28_ReturnsForEveryBudget ==
    urls # <<>> /\ max_links >= 1
    => /\ pc # "raised"
       /\ \A a, b \in 1..Len(selected_links) :
             a # b => selected_links[a].section_index # selected_links[b].section_index

\* the section indices of a list of links are pairwise distinct
DistinctSections(links) ==
    \A a, b \in 1..Len(links) :
        a # b => links[a].section_index # links[b].section_index

\* C29: the candidates are of pairwise distinct linkable segments, the
\* selection returns candidates of that list with pairwise distinct segment
\* indices, and a call adds at most one anchor to any one segment.
C29_OneCandidatePerSegment ==
    /\ DistinctSections(potential_links)
    /\ \A k \in 1..Len(potential_links) :
          /\ potential_links[k].section_index + 1 \in 1..Len(sections)
          /\ sections[potential_links[k].section_index + 1].type # "heading"
          /\ potential_links[k].content
             = sections[potential_links[k].section_index + 1].content
    /\ DistinctSections(selected_links)
    /\ \A k \in 1..Len(selected_links) :
          \E j \in 1..Len(potential_links) : selected_links[k] = potential_links[j]
    /\ pc \in {"second_pass", "done"}
       => \A k \in 1..Len(modified_sections) :
             AnchorCount(modified_sections[k]) - AnchorCount(sections[k].content) <= 1

\* the selection has returned two candidates out of three or more
C29_Witness ==
    /\ SelectionReturned
    /\ Len(selected_links) >= 2
    /\ Len(potential_links) > Len(selected_links)

\* four times the adjusted score of an entry when the penalty depends only
\* on the sign of max_links minus the number of candidates collected
FourTimesAdjustedBySign(section, url_item, links) ==
    Decimal(CalculateMatchScore(Lower(StripTags(section.content)), url_item))
    * (IF url_item.url_type = "category" THEN 3 ELSE 2)
    * (IF max_links - Len(links) < 0 THEN 1 ELSE 2)

\* C30: during the first pass used_urls is empty and every per-category
\* count is 0; a segment with an entry scored above the threshold always
\* gets its candidate; the penalty of 0.5 is applied to every entry when
\* max_links minus the number of candidates so far is negative and to none
\* otherwise.
C30_FirstPassSeesNoUsage ==
    /\ [](pc = "first_pass"
          => /\ used_urls = {}
             /\ \A t \in UrlTypes : link_distribution[t] = 0)
    /\ [][pc = "first_pass" /\ idx' = idx + 1 /\ sections[idx].type # "heading"
          => /\ \A k \in 1..Len(urls) :
                  4 * Decimal(AdjustedScore(
                                 Lower(StripTags(sections[idx].content)), urls[k],
                                 link_distribution,
                                 max_links - Len(potential_links)))
                  = FourTimesAdjustedBySign(sections[idx], urls[k], potential_links)
             /\ (\E a \in AdjustedScoresOf(sections[idx]) : a > 1500)
                => Len(potential_links') = Len(potential_links) + 1]_vars

\* the first pass has just given a segment a candidate of another type than
\* category while more candidates were collected than max_links allows
C30_Witness ==
    /\ pc = "first_pass"
    /\ idx > 1
    /\ potential_links # <<>>
    /\ potential_links[Len(potential_links)].section_index = idx - 2
    /\ potential_links[Len(potential_links)].url.url_type # "category"
    /\ max_links - (Len(potential_links) - 1) < 0

=============================================================================
